---- MODULE Spec2Model ----
(***************************************************************************)
(* Amplenote Dynamic Templater: the expression evaluator (evaluator.js)    *)
(* and the template expansion pipeline (plugin.js).                        *)
(*                                                                         *)
(* Text is a sequence of tokens.  A token is a string: a word, a number,   *)
(* an operator, a brace, an escaped link bracket, a newline ("\n"), a list *)
(* marker.  Inside an expression the tokens stand for the words of the     *)
(* source string joined by single blanks.                                  *)
(***************************************************************************)
EXTENDS Integers, Sequences, FiniteSets, TLC

VARIABLES
  evalInput,        \* the string handed to evaluateExpression
  evalOutput,       \* what evaluateExpression returned for it
  refNow,           \* new Date(): the reference instant of an evaluation
  template,         \* template.content()
  insertMode,       \* the insertMode option of processInsertTemplate
  host,             \* how app.context answers: "ok", "noSelection", "tagLost"
  noteContent,      \* the content of thisNote in the note store
  notes,            \* the notes of the note store
  created,          \* the app.notes.create calls, in order
  pc,               \* where processInsertTemplate stands
  templateMarkdown, \* its local variable of that name
  footnoteData,     \* { counter, content }
  newTaskUUIDs,     \* the identifiers replaceTaskUUIDs handed out
  stepLog,          \* the steps done, each with the text it read and wrote
  returned,         \* how the promise of processInsertTemplate settled
  tasks,            \* per new task: the state of its closure in processTasks
  clock,            \* Date.now() in milliseconds since processTasks was called
  tasksPromise,     \* the promise of processTasks
  errorLog,         \* the console.error calls
  polls,            \* per new task: its getTask calls so far and the time of the last
  storage           \* an ExpiryStorage, window.localStorage and the calls made on it

evalVars == <<evalInput, evalOutput, refNow>>

pipeVars == <<template, insertMode, host, noteContent, notes, created, pc,
              templateMarkdown, footnoteData, newTaskUUIDs, stepLog, returned>>

taskVars == <<tasks, clock, tasksPromise, errorLog>>

vars == <<evalVars, pipeVars, taskVars, polls, storage>>

\* no ExpiryStorage constructed
NoStorage == <<>>

\* no pipeline run
PipelineIdle ==
  /\ template = <<>> /\ insertMode = "none" /\ host = "none" /\ noteContent = <<>>
  /\ notes = {} /\ created = <<>> /\ pc = "idle" /\ templateMarkdown = <<>>
  /\ footnoteData = [counter |-> 1, content |-> <<>>]
  /\ newTaskUUIDs = <<>> /\ stepLog = <<>> /\ returned = "pending"
  /\ tasks = <<>> /\ clock = 0 /\ tasksPromise = "none" /\ errorLog = <<>>
  /\ polls = <<>>

----------------------------------------------------------------------------
(* Sequences *)

Last(s) == s[Len(s)]

Tok(ts, i) == IF i >= 1 /\ i <= Len(ts) THEN ts[i] ELSE "<eof>"

Contains(ts, t) == \E i \in 1..Len(ts) : ts[i] = t

----------------------------------------------------------------------------
(* Values: the `result` of an evaluation *)

Null == [v |-> "null"]

RECURSIVE GCD(_, _)
GCD(a, b) == IF b = 0 THEN a ELSE GCD(b, a % b)

Abs(n) == IF n < 0 THEN -n ELSE n

\* A JavaScript number, kept exact as a fraction n/d in lowest terms with
\* d >= 0: d = 0 is Infinity (n = 1), -Infinity (n = -1) or NaN (n = 0).
NumV(n, d) ==
  IF d = 0 THEN [v |-> "num", n |-> (IF n > 0 THEN 1 ELSE IF n < 0 THEN -1 ELSE 0), d |-> 0]
  ELSE LET g == GCD(Abs(n), Abs(d))
           s == IF d < 0 THEN -1 ELSE 1
       IN  [v |-> "num", n |-> s * (n \div g), d |-> s * (d \div g)]

NaN == NumV(0, 0)

IsNaN(x) == x.n = 0 /\ x.d = 0

IsInteger(x) == x.d = 1

StrV(s) == [v |-> "str", s |-> s]

\* A Date: a day number (day 0 is a Sunday) and the milliseconds since local
\* midnight; an Invalid Date has valid = FALSE.
MsPerMinute == 60 * 1000
MsPerHour == 60 * MsPerMinute
MsPerDay == 24 * MsPerHour

InstantV(day, ms) ==
  [v |-> "instant", valid |-> TRUE, d |-> day + (ms \div MsPerDay), ms |-> ms % MsPerDay]

InvalidDate == [v |-> "instant", valid |-> FALSE, d |-> 0, ms |-> 0]

getDay(date) == date.d % 7

\* The calendar: day 1 is Monday, January 1st 2024.
IsLeapYear(year) == (year % 4 = 0 /\ year % 100 # 0) \/ year % 400 = 0

DaysInYear(year) == IF IsLeapYear(year) THEN 366 ELSE 365

\* the leap years from year 1 to the given year
LeapYearsTo(year) == (year \div 4) - (year \div 100) + (year \div 400)

\* the day number of January 1st of the year
YearStart(year) ==
  1 + 365 * (year - 2024) + (LeapYearsTo(year - 1) - LeapYearsTo(2023))

\* the length of the month with index monthIndex (0 is January)
DaysInMonth(year, monthIndex) ==
  IF monthIndex = 1 THEN (IF IsLeapYear(year) THEN 29 ELSE 28)
  ELSE IF monthIndex \in {3, 5, 8, 10} THEN 30 ELSE 31

\* the days of the year before the first of the month
DaysBeforeMonth(year, monthIndex) ==
  <<0, 31, 59, 90, 120, 151, 181, 212, 243, 273, 304, 334>>[monthIndex + 1]
  + (IF monthIndex > 1 /\ IsLeapYear(year) THEN 1 ELSE 0)

\* new Date(year, monthIndex, day): local midnight; a day outside the month
\* counts on from the first of the month
NewDate(year, monthIndex, day) ==
  InstantV(YearStart(year) + DaysBeforeMonth(year, monthIndex) + day - 1, 0)

getFullYear(date) ==
  CHOOSE year \in (2023 + ((date.d - 1) \div 366))..(2025 + ((date.d - 1) \div 365)) : YearStart(year) <= date.d /\ date.d < YearStart(year + 1)

getMonth(date) ==
  CHOOSE monthIndex \in 0..11 :
    /\ NewDate(getFullYear(date), monthIndex, 1).d <= date.d
    /\ date.d < NewDate(getFullYear(date), monthIndex, 1).d
                  + DaysInMonth(getFullYear(date), monthIndex)

getDate(date) == date.d - NewDate(getFullYear(date), getMonth(date), 1).d + 1

----------------------------------------------------------------------------
(* Tokens of the expression language *)

FmtOk == "\"MM-dd-yyyy\":"
FmtBad == "\"invalid\":"
FormatSpecifiers == {FmtOk, FmtBad}

Directives == {"start:", "hide:"}

\* the month names of getMonthIndex, full and abbreviated
months ==
  <<"january", "february", "march", "april", "may", "june", "july", "august",
    "september", "october", "november", "december",
    "jan", "feb", "mar", "apr", "may", "jun", "jul", "aug", "sep", "oct", "nov", "dec">>

\* the words that match (\d{1,2})(st|nd|rd|th)? and the number parseInt reads
DayLiterals ==
  [t \in {"1st", "15", "28th", "29th", "30th", "31st", "40"} |->
     CASE t = "1st" -> 1 [] t = "15" -> 15 [] t = "28th" -> 28 [] t = "29th" -> 29
       [] t = "30th" -> 30 [] t = "31st" -> 31 [] t = "40" -> 40]

weekdays == <<"sunday", "monday", "tuesday", "wednesday", "thursday", "friday", "saturday">>

DecimalLiterals ==
  [t \in {"0", "1", "2", "3", "5", "7", "10", "13", "14"} |->
     CASE t = "0" -> 0 [] t = "1" -> 1 [] t = "2" -> 2 [] t = "3" -> 3 [] t = "5" -> 5
       [] t = "7" -> 7 [] t = "10" -> 10 [] t = "13" -> 13 [] t = "14" -> 14]

\* <hours, minutes> of the tokens the time pattern accepts besides bare numbers
TimeLiterals ==
  [t \in {"3pm", "11am", "10:45"} |->
     CASE t = "3pm" -> <<15, 0>> [] t = "11am" -> <<11, 0>> [] t = "10:45" -> <<10, 45>>]

Operators == {"+", "-", "*", "/", "%", "**"}

\* Markdown of a template: the escaped link brackets, the link flag, the
\* section and alias separators, line breaks, leading whitespace, list markers
LO == "\\[\\["
LC == "\\]\\]"
BAR == "\\|"
NL == "\n"
Indent == "  "
BulletMarker == "- "
NumberMarker == "1. "
TaskMarker == "- [ ] "
Continuation == "\\"
UuidComments == [c \in {"<!--{uuid:a}-->", "<!--{uuid:b}-->"} |->
                   IF c = "<!--{uuid:a}-->" THEN "a" ELSE "b"]

MarkupTokens ==
  {LO, LC, BAR, "?", "#", "[[", "]]", "|", Indent, BulletMarker, NumberMarker,
   TaskMarker, Continuation} \cup DOMAIN UuidComments

Punctuators == Operators \cup {"(", ")", "{", "}", ";"}

\* \w+ : letters, digits and underscore only
IsWord(t) ==
  /\ t \notin Punctuators
  /\ t \notin FormatSpecifiers
  /\ t \notin Directives
  /\ t \notin {"10:45", "\n", "<eof>"}
  /\ t \notin MarkupTokens

\* parseInt(t, 10): the leading decimal digits of the token
parseInt(t) ==
  IF t \in DOMAIN DecimalLiterals THEN NumV(DecimalLiterals[t], 1)
  ELSE IF t = "3pm" THEN NumV(3, 1)
  ELSE IF t = "11am" THEN NumV(11, 1)
  ELSE IF t = "10:45" THEN NumV(10, 1)
  ELSE IF t \in DOMAIN DayLiterals THEN NumV(DayLiterals[t], 1)
  ELSE NaN

----------------------------------------------------------------------------
(* Arithmetic on JavaScript numbers *)

NumAdd(a, b) ==
  IF IsNaN(a) \/ IsNaN(b) THEN NaN
  ELSE IF a.d = 0 /\ b.d = 0 THEN (IF a.n = b.n THEN a ELSE NaN)
  ELSE IF a.d = 0 THEN a
  ELSE IF b.d = 0 THEN b
  ELSE NumV(a.n * b.d + b.n * a.d, a.d * b.d)

NumNeg(a) == NumV(-a.n, a.d)

NumMul(a, b) == NumV(a.n * b.n, a.d * b.d)

NumDiv(a, b) == NumMul(a, NumV(b.d, b.n))

RECURSIVE NumPowNat(_, _)
NumPowNat(a, k) == IF k = 0 THEN NumV(1, 1) ELSE NumMul(a, NumPowNat(a, k - 1))

\* Math.pow for an integer exponent (the literals of the model are integers;
\* a fractional exponent leaves the exact fractions and is not drawn)
NumPow(a, b) ==
  IF IsNaN(b) THEN NaN
  ELSE IF b.n = 0 /\ b.d = 1 THEN NumV(1, 1)
  ELSE IF IsNaN(a) \/ ~IsInteger(b) THEN NaN
  ELSE IF b.n > 0 THEN NumPowNat(a, b.n)
  ELSE NumDiv(NumV(1, 1), NumPowNat(a, -b.n))

\* Math.PI and Math.E, to the precision of a small fraction
MathPI == NumV(22, 7)
MathE == NumV(193, 71)

----------------------------------------------------------------------------
(* esprima.parseScript on the expression, then the AST interpreter.         *)
(* A parse result is [ok, node, next]; ok = FALSE is a thrown syntax error. *)

SyntaxError == [ok |-> FALSE]

Parsed(node, next) == [ok |-> TRUE, node |-> node, next |-> next]

IsIdentifier(t) == IsWord(t) /\ t \notin DOMAIN DecimalLiterals /\ t \notin DOMAIN TimeLiterals

\* The expression grammar of the parser, one rule per level of precedence.
\* parseExpression(rule, ts, i, left) parses from token i by the rule named;
\* the "...Rest" rules continue after the operand `left`.
RECURSIVE parseExpression(_, _, _, _)
parseExpression(rule, ts, i, left) ==
  LET t == Tok(ts, i) IN
  CASE rule = "primary" ->
         IF t \in DOMAIN DecimalLiterals
         THEN Parsed([type |-> "Literal", value |-> NumV(DecimalLiterals[t], 1)], i + 1)
         ELSE IF IsIdentifier(t)
         THEN Parsed([type |-> "Identifier", name |-> t], i + 1)
         ELSE IF t = "("
         THEN LET r == parseExpression("additive", ts, i + 1, Null) IN
              IF r.ok /\ Tok(ts, r.next) = ")" THEN Parsed(r.node, r.next + 1) ELSE SyntaxError
         ELSE SyntaxError
    \* callee ( [argument] ) ... : the arguments are parsed and kept out of
    \* the node, since evaluateFunction never reads them
    [] rule = "callRest" ->
         IF t # "(" THEN Parsed(left, i)
         ELSE IF Tok(ts, i + 1) = ")"
         THEN parseExpression("callRest", ts, i + 2, [type |-> "CallExpression", callee |-> left])
         ELSE LET a == parseExpression("additive", ts, i + 1, Null) IN
              IF a.ok /\ Tok(ts, a.next) = ")"
              THEN parseExpression("callRest", ts, a.next + 1,
                                   [type |-> "CallExpression", callee |-> left])
              ELSE SyntaxError
    [] rule = "unary" ->
         IF t \in {"+", "-"}
         THEN LET r == parseExpression("unary", ts, i + 1, Null) IN
              IF r.ok
              THEN Parsed([type |-> "UnaryExpression", operator |-> t, argument |-> r.node],
                          r.next)
              ELSE SyntaxError
         ELSE LET p == parseExpression("primary", ts, i, Null) IN
              IF p.ok THEN parseExpression("callRest", ts, p.next, p.node) ELSE SyntaxError
    \* a ** b is right-associative and its left operand may not be a unary
    \* expression: the ** is then left for the caller, who rejects it
    [] rule = "exponentiation" ->
         LET l == parseExpression("unary", ts, i, Null) IN
         IF ~l.ok THEN SyntaxError
         ELSE IF l.node.type # "UnaryExpression" /\ Tok(ts, l.next) = "**"
         THEN LET r == parseExpression("exponentiation", ts, l.next + 1, Null) IN
              IF r.ok
              THEN Parsed([type |-> "BinaryExpression", operator |-> "**",
                           left |-> l.node, right |-> r.node], r.next)
              ELSE SyntaxError
         ELSE l
    [] rule = "multiplicativeRest" ->
         IF t \in {"*", "/", "%"}
         THEN LET r == parseExpression("exponentiation", ts, i + 1, Null) IN
              IF r.ok
              THEN parseExpression("multiplicativeRest", ts, r.next,
                     [type |-> "BinaryExpression", operator |-> t,
                      left |-> left, right |-> r.node])
              ELSE SyntaxError
         ELSE Parsed(left, i)
    [] rule = "multiplicative" ->
         LET l == parseExpression("exponentiation", ts, i, Null) IN
         IF l.ok THEN parseExpression("multiplicativeRest", ts, l.next, l.node) ELSE SyntaxError
    [] rule = "additiveRest" ->
         IF t \in {"+", "-"}
         THEN LET r == parseExpression("multiplicative", ts, i + 1, Null) IN
              IF r.ok
              THEN parseExpression("additiveRest", ts, r.next,
                     [type |-> "BinaryExpression", operator |-> t,
                      left |-> left, right |-> r.node])
              ELSE SyntaxError
         ELSE Parsed(left, i)
    [] rule = "additive" ->
         LET l == parseExpression("multiplicative", ts, i, Null) IN
         IF l.ok THEN parseExpression("additiveRest", ts, l.next, l.node) ELSE SyntaxError

\* the tokens from i on are statements of a script: expression statements
\* and empty statements, each ended by ";" or by the end of the script
RECURSIVE StatementsFrom(_, _)
StatementsFrom(ts, i) ==
  IF i > Len(ts) THEN TRUE
  ELSE IF ts[i] = ";" THEN StatementsFrom(ts, i + 1)
  ELSE LET r == parseExpression("additive", ts, i, Null) IN
       /\ r.ok
       /\ r.next > Len(ts) \/ (ts[r.next] = ";" /\ StatementsFrom(ts, r.next + 1))

\* a script that is one expression statement and nothing more
parseScriptOneStatement(ts) ==
  LET r == parseExpression("additive", ts, 1, Null) IN
  IF r.ok /\ r.next = Len(ts) + 1 THEN r ELSE SyntaxError

\* esprima.parseScript, then ast.body[0].expression: the script is a
\* sequence of statements of which only the first is read, and that one has
\* to be an expression statement.  A script of no statement, one that begins
\* with an empty statement, a block ({ first) or a labelled statement
\* (start: / hide: first), and any token outside the expression grammar end
\* in a thrown error, as [ok |-> FALSE].
parseScript(ts) ==
  LET r == parseExpression("additive", ts, 1, Null) IN
  IF r.ok /\ (r.next > Len(ts) \/ (ts[r.next] = ";" /\ StatementsFrom(ts, r.next + 1)))
  THEN r ELSE SyntaxError

Threw == [v |-> "throw"]

getConstant(name) ==
  IF name = "pi" THEN MathPI ELSE IF name = "e" THEN MathE ELSE Threw

evaluateFunction(node) ==
  IF node.callee.type = "Identifier" /\ node.callee.name = "pi" THEN MathPI
  ELSE IF node.callee.type = "Identifier" /\ node.callee.name = "e" THEN MathE
  ELSE Threw

applyOperator(operator, left, right) ==
  CASE operator = "+" -> NumAdd(left, right)
    [] operator = "-" -> NumAdd(left, NumNeg(right))
    [] operator = "*" -> NumMul(left, right)
    [] operator = "/" -> NumDiv(left, right)
    [] operator = "**" -> NumPow(left, right)
    [] OTHER -> Threw

applyUnaryOperator(operator, arg) ==
  CASE operator = "+" -> arg
    [] operator = "-" -> NumNeg(arg)
    [] OTHER -> Threw

RECURSIVE evaluateAST(_)
evaluateAST(node) ==
  CASE node.type = "Literal" -> node.value
    [] node.type = "BinaryExpression" ->
         LET left == evaluateAST(node.left) IN
         IF left = Threw THEN Threw
         ELSE LET right == evaluateAST(node.right) IN
              IF right = Threw THEN Threw ELSE applyOperator(node.operator, left, right)
    [] node.type = "UnaryExpression" ->
         LET arg == evaluateAST(node.argument) IN
         IF arg = Threw THEN Threw ELSE applyUnaryOperator(node.operator, arg)
    [] node.type = "Identifier" -> getConstant(node.name)
    [] node.type = "CallExpression" -> evaluateFunction(node)
    [] OTHER -> Threw

\* The body of parseMathExpression's try block: [threw, success, value]
parseMathExpressionTry(expr) ==
  LET ast == parseScript(expr) IN
  IF ~ast.ok THEN [threw |-> TRUE, success |-> FALSE, value |-> Null]
  ELSE LET result == evaluateAST(ast.node) IN
       IF result = Threw THEN [threw |-> TRUE, success |-> FALSE, value |-> Null]
       ELSE [threw |-> FALSE, success |-> TRUE, value |-> result]

\* a variant that lets the error escape
parseMathExpressionNoCatch(expr) == parseMathExpressionTry(expr)

parseMathExpression(expr) ==
  LET r == parseMathExpressionTry(expr) IN
  IF r.threw THEN [threw |-> FALSE, success |-> FALSE, value |-> Null] ELSE r

----------------------------------------------------------------------------
(* date-fns and Date helpers *)

\* the time of day left as it is
clearTimeKept(dateTime) == dateTime

clearTime(dateTime) ==
  IF dateTime.valid THEN InstantV(dateTime.d, 0) ELSE InvalidDate

hasTime(dateTime) == dateTime.valid /\ dateTime.ms > 0

addMilliseconds(date, value, unitMs) ==
  IF ~date.valid \/ IsNaN(value) THEN InvalidDate
  ELSE InstantV(date.d, date.ms + value.n * unitMs)

addDays(date, value) ==
  IF ~date.valid \/ IsNaN(value) THEN InvalidDate
  ELSE InstantV(date.d + value.n, date.ms)

\* set(date, {hours, minutes, seconds: 0, milliseconds: 0}); hours past 23
\* roll over into the following days
setTime(date, hours, minutes) ==
  IF ~date.valid THEN InvalidDate
  ELSE InstantV(date.d, hours * MsPerHour + minutes * MsPerMinute)

\* format(date, pattern): throws on an Invalid Date and on a pattern with an
\* unescaped letter that is no format token; otherwise the text shows the
\* fields the pattern names
format(date, pattern) ==
  IF ~date.valid \/ pattern = FmtBad THEN Threw
  ELSE CASE pattern \in {FmtOk, "MMMM do, yyyy"} ->
              StrV(pattern \o "=" \o ToString(date.d))
         [] pattern = "HH:mm" ->
              StrV(pattern \o "=" \o ToString(date.ms \div MsPerMinute))
         [] pattern = "HH:mm:ss" ->
              StrV(pattern \o "=" \o ToString(date.ms \div 1000))
         [] pattern = "MMMM do, yyyy 'at' HH:mm" ->
              StrV(pattern \o "=" \o ToString(date.d) \o "," \o ToString(date.ms \div MsPerMinute))
         [] pattern = "MMMM do, yyyy 'at' HH:mm:ss" ->
              StrV(pattern \o "=" \o ToString(date.d) \o "," \o ToString(date.ms \div 1000))
         [] OTHER -> Threw

getSeconds(date) == (date.ms \div 1000) % 60

getWeekdayIndex(day) ==
  IF \E i \in 1..7 : weekdays[i] = day
  THEN (CHOOSE i \in 1..7 : weekdays[i] = day) - 1
  ELSE -1

IsWeekday(t) == getWeekdayIndex(t) # -1

\* without the step that skips today
nextWeekdayOrToday(referenceDate, weekday) ==
  addDays(referenceDate, NumV((weekday - getDay(referenceDate) + 7) % 7, 1))

nextWeekday(referenceDate, weekday) ==
  LET diff0 == (weekday - getDay(referenceDate) + 7) % 7
      diff == IF diff0 = 0 THEN 7 ELSE diff0
  IN  addDays(referenceDate, NumV(diff, 1))

getCurrentWeekday(referenceDate, targetWeekday) ==
  LET diff0 == getDay(referenceDate) - targetWeekday
      diff == IF diff0 < 0 THEN diff0 + 7 ELSE diff0
  IN  clearTime(addDays(referenceDate, NumV(-diff, 1)))

previousWeekday(referenceDate, weekday) ==
  LET back0 == (7 + getDay(referenceDate) - weekday) % 7
      back == IF back0 = 0 THEN 7 ELSE back0
  IN  addDays(referenceDate, NumV(-back, 1))

wordToNumber(word) ==
  CASE word = "zero" -> NumV(0, 1)
    [] word \in {"one", "a", "an"} -> NumV(1, 1)
    [] word = "two" -> NumV(2, 1)
    [] word = "three" -> NumV(3, 1)
    [] word = "twenty" -> NumV(20, 1)
    [] OTHER -> NaN

isTimeUnit(unit) == unit \in {"hour", "minute", "second", "millisecond"}

\* the units of (day|week|month|year|hour|minute|second)s?
SingularUnits == {"day", "week", "month", "year", "hour", "minute", "second"}
PluralUnits == {"days", "weeks", "months", "years", "hours", "minutes", "seconds"}

Singular(unit) ==
  CASE unit = "days" -> "day" [] unit = "weeks" -> "week" [] unit = "months" -> "month"
    [] unit = "years" -> "year" [] unit = "hours" -> "hour"
    [] unit = "minutes" -> "minute" [] unit = "seconds" -> "second" [] OTHER -> unit

\* set(date, {date: day}): the day of the month set, the time of day kept
SetDate(date, day) ==
  IF ~date.valid THEN InvalidDate
  ELSE InstantV(NewDate(getFullYear(date), getMonth(date), day).d, date.ms)

\* the day of the month kept where the month has it, else its last day
MonthMoved(date, total) ==
  LET year == getFullYear(date) + (total \div 12)
      monthIndex == total % 12
  IN  InstantV(NewDate(year, monthIndex,
                       IF getDate(date) > DaysInMonth(year, monthIndex)
                       THEN DaysInMonth(year, monthIndex) ELSE getDate(date)).d,
               date.ms)

\* addMonths(date, value) of date-fns
addMonths(date, value) ==
  IF ~date.valid \/ IsNaN(value) THEN InvalidDate
  ELSE MonthMoved(date, getMonth(date) + value.n)

addYears(date, value) == addMonths(date, NumMul(value, NumV(12, 1)))

\* null (an unknown unit) is Null
addTime(date, value, unit) ==
  CASE Singular(unit) = "day" -> addDays(date, value)
    [] Singular(unit) = "week" -> addDays(date, NumMul(value, NumV(7, 1)))
    [] Singular(unit) = "month" -> addMonths(date, value)
    [] Singular(unit) = "year" -> addYears(date, value)
    [] Singular(unit) = "hour" -> addMilliseconds(date, value, MsPerHour)
    [] Singular(unit) = "minute" -> addMilliseconds(date, value, MsPerMinute)
    [] Singular(unit) = "second" -> addMilliseconds(date, value, 1000)
    [] OTHER -> Null

subtractTime(date, value, unit) == addTime(date, NumNeg(value), unit)

----------------------------------------------------------------------------
(* The date phrase grammar.  A phrase is the sequence of its words, in     *)
(* lower case (every pattern of the source ignores case).                  *)

parseTimeExpression(expr, referenceDate) ==
  IF expr = <<"now">> THEN referenceDate
  ELSE IF Len(expr) = 1 /\ expr[1] \in DOMAIN TimeLiterals
  THEN setTime(referenceDate, TimeLiterals[expr[1]][1], TimeLiterals[expr[1]][2])
  ELSE IF Len(expr) = 1 /\ expr[1] \in DOMAIN DecimalLiterals
  THEN setTime(referenceDate, DecimalLiterals[expr[1]], 0)
  ELSE Null

\* months.indexOf(lowerMonth), folded onto 0..11; -1 for any other word
getMonthIndex(month) ==
  IF \E i \in 1..24 : months[i] = month
  THEN LET index == (CHOOSE i \in 1..24 : months[i] = month
                                          /\ \A j \in 1..(i - 1) : months[j] # month) - 1
       IN  IF index > 11 THEN index - 12 ELSE index
  ELSE -1

\* a full month name
IsMonthName(t) == \E i \in 1..12 : months[i] = t

\* endOfMonth(date): the last millisecond of the month
endOfMonth(date) ==
  IF ~date.valid THEN InvalidDate
  ELSE InstantV(NewDate(getFullYear(date), getMonth(date),
                        DaysInMonth(getFullYear(date), getMonth(date))).d, MsPerDay - 1)

\* the month and day branch without the roll-over: a day past the end of
\* the month is the last day of the month
SpecificDateClamped(year, monthIndex, day) ==
  NewDate(year, monthIndex,
          IF day > DaysInMonth(year, monthIndex) THEN DaysInMonth(year, monthIndex) ELSE day)

\* rule 3 of parseAbsoluteDate: new Date(year, monthIndex, day), cleared
SpecificDate(year, monthIndex, day) == clearTime(NewDate(year, monthIndex, day))

parseAbsoluteDate(expr, referenceDate) ==
  IF expr = <<"the", "weekend">> THEN clearTime(nextWeekday(referenceDate, 6))
  ELSE IF Len(expr) = 1 /\ IsMonthName(expr[1])
  THEN clearTime(NewDate(getFullYear(referenceDate), getMonthIndex(expr[1]), 1))
  ELSE IF Len(expr) = 2 /\ getMonthIndex(expr[1]) # -1 /\ expr[2] \in DOMAIN DayLiterals
  THEN SpecificDate(getFullYear(referenceDate), getMonthIndex(expr[1]), DayLiterals[expr[2]])
  ELSE IF Len(expr) = 3 /\ expr[1] \in {"end", "beginning"} /\ expr[2] = "of"
            /\ IsMonthName(expr[3])
  THEN IF expr[1] = "end"
       THEN endOfMonth(NewDate(getFullYear(referenceDate), getMonthIndex(expr[3]), 1))
       ELSE NewDate(getFullYear(referenceDate), getMonthIndex(expr[3]), 1)
  ELSE IF Len(expr) = 1 /\ IsWeekday(expr[1])
  THEN clearTime(getCurrentWeekday(referenceDate, getWeekdayIndex(expr[1])))
  ELSE Null

\* the last millisecond of the day
EndOfDay(date) == IF date.valid THEN InstantV(date.d, MsPerDay - 1) ELSE InvalidDate

\* rule 5 of parseRelativeDate: the reference date moved by the direction
Directed5(direction, unit, referenceDate) ==
  IF direction = "next" THEN addTime(referenceDate, NumV(1, 1), unit)
  ELSE IF direction = "last" THEN subtractTime(referenceDate, NumV(1, 1), unit)
  ELSE referenceDate

\* rule 5: the date set to the first day of its unit, the time of day kept
Normalized5(unit, date) ==
  CASE unit = "week" -> addDays(date, NumV(0 - getDay(date), 1))
    [] unit = "month" -> SetDate(date, 1)
    [] unit = "year" -> InstantV(NewDate(getFullYear(date), 0, 1).d, date.ms)
    [] OTHER -> date

\* rule 5: the end or the beginning of the unit that starts at date
Edge5(type, unit, date) ==
  IF type = "end"
  THEN CASE unit = "day" -> EndOfDay(date)
         [] unit = "week" -> addDays(date, NumV(6, 1))
         [] unit = "month" -> endOfMonth(date)
         [] OTHER -> EndOfDay(NewDate(getFullYear(date), 11, 31))
  ELSE clearTime(date)

\* rule 6 of parseRelativeDate: this <unit> is the last millisecond of it
ThisUnit(unit, date) ==
  CASE unit = "day" -> EndOfDay(date)
    [] unit = "week" -> EndOfDay(addDays(date, NumV(6 - getDay(date), 1)))
    [] unit = "month" -> endOfMonth(date)
    [] OTHER -> EndOfDay(NewDate(getFullYear(date), 11, 31))

RangeUnits == {"day", "week", "month", "year"}

parseRelativeDate(expr, referenceDate) ==
  LET n == Len(expr)
      ClearUnlessTime(unit, result) == IF isTimeUnit(unit) THEN result ELSE clearTime(result)
  IN
  IF n = 4 /\ IsWeekday(expr[1]) /\ expr[2] = "of" /\ expr[3] \in {"last", "next"}
       /\ expr[4] = "week"
  THEN LET startOfCurrentWeek == addDays(referenceDate, NumV(-getDay(referenceDate), 1))
           referenceWeek == addDays(startOfCurrentWeek,
                                    NumV(IF expr[3] = "last" THEN -7 ELSE 7, 1))
       IN  clearTime(addDays(referenceWeek, NumV(getWeekdayIndex(expr[1]), 1)))
  ELSE IF n = 2 /\ expr[1] \in {"next", "last"} /\ IsWeekday(expr[2])
  THEN IF expr[1] = "next"
       THEN clearTime(nextWeekday(referenceDate, getWeekdayIndex(expr[2])))
       ELSE clearTime(previousWeekday(referenceDate, getWeekdayIndex(expr[2])))
  ELSE IF n = 2 /\ expr[1] \in {"next", "last"} /\ expr[2] \in SingularUnits \cup PluralUnits
  THEN LET unit == Singular(expr[2])
           result == IF expr[1] = "next" THEN addTime(referenceDate, NumV(1, 1), unit)
                     ELSE subtractTime(referenceDate, NumV(1, 1), unit)
       IN  ClearUnlessTime(unit, result)
  ELSE IF \/ n = 3 /\ expr[1] = "in" /\ IsWord(expr[2])
                /\ expr[3] \in SingularUnits \cup PluralUnits
          \/ n = 4 /\ IsWord(expr[1]) /\ expr[2] \in SingularUnits \cup PluralUnits
                /\ expr[3] = "from" /\ expr[4] = "now"
  THEN LET word == IF n = 3 THEN expr[2] ELSE expr[1]
           unit == Singular(IF n = 3 THEN expr[3] ELSE expr[2])
           value == IF IsNaN(parseInt(word)) THEN wordToNumber(word) ELSE parseInt(word)
       IN  IF IsNaN(value) THEN Null
           ELSE ClearUnlessTime(unit, addTime(referenceDate, value, unit))
  ELSE IF n = 3 /\ IsWord(expr[1]) /\ expr[2] \in SingularUnits \cup PluralUnits
            /\ expr[3] = "ago"
  THEN LET unit == Singular(expr[2])
           \* parseInt(...) || wordToNumber(...): 0 and NaN are both falsy
           value == IF IsNaN(parseInt(expr[1])) \/ parseInt(expr[1]) = NumV(0, 1)
                    THEN wordToNumber(expr[1]) ELSE parseInt(expr[1])
       IN  IF IsNaN(value) THEN Null
           ELSE ClearUnlessTime(unit, subtractTime(referenceDate, value, unit))
  ELSE IF n = 4 /\ expr[1] \in {"end", "beginning"} /\ expr[2] = "of"
            /\ expr[3] \in {"next", "last", "this"} /\ expr[4] \in RangeUnits
  THEN Edge5(expr[1], expr[4], Normalized5(expr[4], Directed5(expr[3], expr[4], referenceDate)))
  ELSE IF n = 3 /\ expr[1] \in {"end", "beginning"} /\ expr[2] = "of" /\ expr[3] \in RangeUnits
  THEN Edge5(expr[1], expr[3], Normalized5(expr[3], referenceDate))
  ELSE IF n = 2 /\ expr[1] = "this" /\ expr[2] \in RangeUnits
  THEN ThisUnit(expr[2], referenceDate)
  ELSE Null

NoDate == [success |-> FALSE, type |-> "", date |-> Null]

RECURSIVE parseDateExpression(_, _)
RECURSIVE parseDateTimeExpression(_, _)
RECURSIVE parseCompoundExpression(_, _)

\* <date phrase> [at] <time>: the time is the last word
parseDateTimeExpression(expr, now) ==
  LET n == Len(expr) IN
  IF n >= 2 /\ Last(expr) \in DOMAIN TimeLiterals /\ ~Contains(expr, "\n")
  THEN LET datePart == IF n >= 3 /\ expr[n - 1] = "at" THEN SubSeq(expr, 1, n - 2)
                       ELSE SubSeq(expr, 1, n - 1)
           dateEval == parseDateExpression(datePart, now)
       IN  IF dateEval.success
           THEN parseTimeExpression(<<Last(expr)>>, dateEval.date)
           ELSE Null
  ELSE Null

\* the first or last day of the month of date that is no Saturday or Sunday
RECURSIVE SkipWeekend(_, _)
SkipWeekend(date, step) ==
  IF date.valid /\ getDay(date) \in {0, 6} THEN SkipWeekend(addDays(date, NumV(step, 1)), step)
  ELSE date

\* first|last <weekday> of ..., on the first or the last day of the base's month
WeekdayFrom(position, dayType, date) ==
  IF dayType = "weekday" THEN SkipWeekend(date, IF position = "first" THEN 1 ELSE 0 - 1)
  ELSE IF position = "first" THEN nextWeekday(date, getWeekdayIndex(dayType))
  ELSE previousWeekday(date, getWeekdayIndex(dayType))

\* the second pattern of parseCompoundExpression, on the base it parsed
WeekdayOfMonth(position, dayType, baseDateResult) ==
  IF ~baseDateResult.success THEN Null
  ELSE clearTime(WeekdayFrom(position, dayType,
         SetDate(baseDateResult.date,
                 IF position = "first" THEN 1
                 ELSE IF baseDateResult.date.valid
                      THEN DaysInMonth(getFullYear(baseDateResult.date),
                                       getMonth(baseDateResult.date))
                      ELSE 1)))

\* <count> <unit> before|after [the] <phrase>, then first|last <weekday> of <phrase>
parseCompoundExpression(expr, now) ==
  LET n == Len(expr) IN
  IF n >= 4 /\ expr[1] \in {"first", "last"} /\ (expr[2] = "weekday" \/ IsWeekday(expr[2]))
       /\ expr[3] = "of" /\ ~Contains(SubSeq(expr, 4, n), "\n")
  THEN WeekdayOfMonth(expr[1], expr[2], parseDateExpression(SubSeq(expr, 4, n), now))
  ELSE
  IF n >= 4 /\ IsWord(expr[1]) /\ IsWord(expr[2]) /\ expr[3] \in {"before", "after"}
       /\ ~Contains(SubSeq(expr, 4, n), "\n")
  THEN LET rest == SubSeq(expr, 4, n)
           baseExpression == IF Len(rest) >= 2 /\ rest[1] = "the" THEN Tail(rest) ELSE rest
           baseDateResult == parseDateExpression(baseExpression, now)
           value == IF IsNaN(parseInt(expr[1])) THEN wordToNumber(expr[1])
                    ELSE parseInt(expr[1])
       IN  IF baseDateResult.success
           THEN IF expr[3] = "after" THEN addTime(baseDateResult.date, value, expr[2])
                ELSE subtractTime(baseDateResult.date, value, expr[2])
           ELSE Null
  ELSE Null

parseDateExpression(expr, now) ==
  LET dateTime == parseDateTimeExpression(expr, now) IN
  IF dateTime # Null THEN [success |-> TRUE, type |-> "dateTime", date |-> dateTime]
  ELSE
  LET compoundDate == parseCompoundExpression(expr, now) IN
  IF compoundDate # Null THEN [success |-> TRUE, type |-> "date", date |-> compoundDate]
  ELSE IF expr = <<"today">>
  THEN [success |-> TRUE, type |-> "date", date |-> clearTime(now)]
  ELSE IF expr = <<"tomorrow">>
  THEN [success |-> TRUE, type |-> "date", date |-> clearTime(addDays(now, NumV(1, 1)))]
  ELSE IF expr = <<"yesterday">>
  THEN [success |-> TRUE, type |-> "date", date |-> clearTime(addDays(now, NumV(-1, 1)))]
  ELSE
  LET absoluteDate == parseAbsoluteDate(expr, now) IN
  IF absoluteDate # Null THEN [success |-> TRUE, type |-> "date", date |-> absoluteDate]
  ELSE
  LET relativeDate == parseRelativeDate(expr, now) IN
  IF relativeDate # Null
  THEN [success |-> TRUE, type |-> IF hasTime(relativeDate) THEN "dateTime" ELSE "date",
        date |-> relativeDate]
  ELSE
  LET timeDate == parseTimeExpression(expr, now) IN
  IF timeDate # Null THEN [success |-> TRUE, type |-> "time", date |-> timeDate]
  ELSE NoDate

----------------------------------------------------------------------------
(* evaluateExpression *)

Unhandled == [type |-> "unhandled", result |-> Null]

\* the result when an error leaves evaluateExpression uncaught
Exception == [type |-> "exception", result |-> Null]

\* try { finalDate = format(...) } catch { return Unhandled }
FormattedDate(finalDate) ==
  IF finalDate = Threw THEN Unhandled ELSE [type |-> "formattedDate", result |-> finalDate]

\* the rest of evaluateExpression, once the date phrase and the arithmetic
\* have been tried: the arithmetic is read only when the phrase is no date
Evaluation(dateResult, mathResult, formatMatch, formatSpecifier) ==
  IF dateResult.success
  THEN IF formatMatch
       THEN FormattedDate(format(dateResult.date, formatSpecifier))
       ELSE [type |-> dateResult.type, result |-> dateResult.date]
  ELSE IF mathResult.threw THEN Exception
  ELSE IF mathResult.success THEN [type |-> "math", result |-> mathResult.value]
  ELSE Unhandled

evaluateExpression(expressionString, now) ==
  IF Len(expressionString) < 2 \/ Head(expressionString) # "{" \/ Last(expressionString) # "}"
  THEN Unhandled
  ELSE
  LET innerContent == SubSeq(expressionString, 2, Len(expressionString) - 1)
      \* /^"([^"]+)":(.+)$/ : a specifier, then at least one more character,
      \* none of them a line break
      formatMatch == /\ Len(innerContent) >= 2
                     /\ innerContent[1] \in FormatSpecifiers
                     /\ ~Contains(Tail(innerContent), "\n")
      formatSpecifier == IF formatMatch THEN innerContent[1] ELSE ""
      expression == IF formatMatch THEN Tail(innerContent) ELSE innerContent
  IN Evaluation(parseDateExpression(expression, now), parseMathExpression(expression),
                formatMatch, formatSpecifier)


----------------------------------------------------------------------------
(* The evaluator on its own: one call of evaluateExpression *)

\* the longest inner content (in tokens) of an input string
MaxInner == 3

EvalVocabulary == {"today", "foo", "1", "+", "days", "after", FmtOk, FmtBad}

RECURSIVE TokenSeqs(_, _)
TokenSeqs(vocabulary, n) ==
  IF n = 0 THEN {<<>>}
  ELSE LET shorter == TokenSeqs(vocabulary, n - 1) IN
       shorter \cup {Append(ts, t) : ts \in shorter, t \in vocabulary}

EvalInputs ==
  {lead \o inner \o trail :
     lead \in {<<>>, <<"{">>, <<"{", "{">>},
     inner \in TokenSeqs(EvalVocabulary, MaxInner),
     trail \in {<<>>, <<"}">>, <<"}", "}">>}}

\* a Saturday at 10:00 and a Wednesday at 00:00
RefInstants == {InstantV(6, 10 * MsPerHour), InstantV(10, 0)}

Pending == [type |-> "pending", result |-> Null]

InitEval ==
  /\ evalInput \in EvalInputs
  /\ evalOutput = Pending
  /\ refNow \in RefInstants
  /\ PipelineIdle
  /\ storage = NoStorage

Evaluate ==
  /\ evalOutput = Pending
  /\ evalOutput' = evaluateExpression(evalInput, refNow)
  /\ UNCHANGED <<evalInput, refNow, pipeVars, taskVars, polls, storage>>

NextEval == Evaluate

SpecEval == InitEval /\ [][NextEval]_vars

----------------------------------------------------------------------------
(* C3 *)

EvalInner == SubSeq(evalInput, 2, Len(evalInput) - 1)

EvalMissingBraces ==
  Len(evalInput) < 2 \/ Head(evalInput) # "{" \/ Last(evalInput) # "}"

EvalEmptyBraces == ~EvalMissingBraces /\ EvalInner = <<>>

EvalNestedBraces ==
  ~EvalMissingBraces /\ (Contains(EvalInner, "{") \/ Contains(EvalInner, "}"))

\* a phrase of words the grammar does not know
EvalUnknownPhrase ==
  /\ ~EvalMissingBraces
  /\ EvalInner # <<>>
  /\ \A i \in 1..Len(EvalInner) : EvalInner[i] = "foo"

\* arithmetic that ends in a binary operator or sets two operands side by side
EvalSyntaxError ==
  /\ ~EvalMissingBraces
  /\ EvalInner # <<>>
  /\ \A i \in 1..Len(EvalInner) : EvalInner[i] \in {"1", "+"}
  /\ \/ Last(EvalInner) = "+"
     \/ \E i \in 1..(Len(EvalInner) - 1) : EvalInner[i] = "1" /\ EvalInner[i + 1] = "1"

\* an invalid format specifier in front of a phrase that resolves to a date
EvalInvalidSpecifier ==
  /\ ~EvalMissingBraces
  /\ Len(EvalInner) >= 2
  /\ EvalInner[1] = FmtBad
  /\ parseDateExpression(Tail(EvalInner), refNow).success

----------------------------------------------------------------------------
(* Text helpers of the pipeline *)

\* the characters of a token sequence as one string
RECURSIVE Join(_)
Join(ts) == IF ts = <<>> THEN "" ELSE Head(ts) \o Join(Tail(ts))

\* `${number}`
NumToString(x) ==
  IF x.d = 1 THEN ToString(x.n)
  ELSE IF x.d = 0 THEN (IF x.n > 0 THEN "Infinity" ELSE IF x.n < 0 THEN "-Infinity" ELSE "NaN")
  ELSE ToString(x.n) \o "/" \o ToString(x.d)

\* string.indexOf(t, from): the first index >= from holding t, 0 when none
IndexOf(ts, t, from) ==
  IF \E k \in from..Len(ts) : ts[k] = t
  THEN CHOOSE k \in from..Len(ts) : ts[k] = t /\ \A m \in from..(k - 1) : ts[m] # t
  ELSE 0

\* string.lastIndexOf(t, from): the last index <= from holding t, 0 when none
LastIndexOf(ts, t, from) ==
  IF \E k \in 1..from : k <= Len(ts) /\ ts[k] = t
  THEN CHOOSE k \in 1..from : k <= Len(ts) /\ ts[k] = t
                              /\ \A m \in (k + 1)..from : m > Len(ts) \/ ts[m] # t
  ELSE 0

\* the first index >= from where pat occurs in ts, 0 when none
FindSeq(ts, pat, from) ==
  LET Here(k) == k + Len(pat) - 1 <= Len(ts) /\ SubSeq(ts, k, k + Len(pat) - 1) = pat IN
  IF \E k \in from..Len(ts) : Here(k)
  THEN CHOOSE k \in from..Len(ts) : Here(k) /\ \A m \in from..(k - 1) : ~Here(m)
  ELSE 0

\* string.replace(pat, rep) with a string pattern: the first occurrence only
ReplaceFirst(ts, pat, rep) ==
  LET k == FindSeq(ts, pat, 1) IN
  IF k = 0 \/ pat = <<>> THEN ts
  ELSE SubSeq(ts, 1, k - 1) \o rep \o SubSeq(ts, k + Len(pat), Len(ts))

isInsideLink(matchIndex, matchLength, string) ==
  LET start == LastIndexOf(string, LO, matchIndex)
      end == IndexOf(string, LC, matchIndex)
  IN start # 0 /\ end # 0 /\ start < matchIndex /\ end >= matchIndex + matchLength

isInsideTask(matchIndex, string) ==
  LET lineStart == LastIndexOf(string, NL, matchIndex) + 1 IN
  Tok(string, lineStart) = TaskMarker

----------------------------------------------------------------------------
(* Expression substitution and footnotes *)

formatEvaluation(evaluation) ==
  CASE evaluation.type = "dateTime" ->
         IF ~evaluation.result.valid THEN Threw
         ELSE IF getSeconds(evaluation.result) > 0
         THEN format(evaluation.result, "MMMM do, yyyy 'at' HH:mm:ss")
         ELSE format(evaluation.result, "MMMM do, yyyy 'at' HH:mm")
    [] evaluation.type = "date" -> format(evaluation.result, "MMMM do, yyyy")
    [] evaluation.type = "time" ->
         IF ~evaluation.result.valid THEN Threw
         ELSE IF getSeconds(evaluation.result) > 0
         THEN format(evaluation.result, "HH:mm:ss")
         ELSE format(evaluation.result, "HH:mm")
    [] evaluation.type = "math" -> StrV(NumToString(evaluation.result))
    [] evaluation.type = "formattedDate" -> evaluation.result
    [] OTHER -> Null

\* a replacement text, the footnote data after it, and whether an error escaped
Replaced(text, fnData) == [text |-> text, fnData |-> fnData, threw |-> FALSE]

Escaped(fnData) == [text |-> <<>>, fnData |-> fnData, threw |-> TRUE]

FootnoteRef(result, footnoteIndex) ==
  "[" \o result \o "][^templater" \o ToString(footnoteIndex) \o "]"

createFootnote(result, expression, fnData) ==
  LET footnoteIndex == fnData.counter IN
  Replaced(<<FootnoteRef(result, footnoteIndex)>>,
           [counter |-> fnData.counter + 1,
            content |-> Append(fnData.content,
                               [index |-> footnoteIndex, result |-> result,
                                expression |-> expression])])

\* insideContext ? result : createFootnote(result, ...)
InlineOrFootnote(result, expression, insideContext, fnData) ==
  IF insideContext THEN Replaced(<<result>>, fnData)
  ELSE createFootnote(result, expression, fnData)

\* the date branch, on the value formatEvaluation gave
FormattedOrThrew(formattedDate, expression, insideContext, fnData) ==
  IF formattedDate = Threw THEN Escaped(fnData)
  ELSE InlineOrFootnote(formattedDate.s, expression, insideContext, fnData)

\* the branches of evaluateExpressionAndFootnote on the evaluation
FootnotedEvaluation(evaluation, match, expression, insideContext, fnData) ==
  IF evaluation.type = "math"
  THEN InlineOrFootnote(NumToString(evaluation.result), expression, insideContext, fnData)
  ELSE IF evaluation.type \in {"date", "dateTime", "time"}
  THEN FormattedOrThrew(formatEvaluation(evaluation), expression, insideContext, fnData)
  ELSE IF evaluation.type = "formattedDate"
  THEN InlineOrFootnote(evaluation.result.s, expression, insideContext, fnData)
  ELSE Replaced(match, fnData)

evaluateExpressionAndFootnote(match, expression, insideContext, fnData, now) ==
  FootnotedEvaluation(evaluateExpression(match, now), match, expression, insideContext, fnData)

\* One match of /\{(?:(start|hide):)?([^}]+)\}/ starting at the brace at i:
\* the index of its closing brace, 0 when the pattern does not match there
ExpressionEnd(string, i) ==
  LET k == IndexOf(string, "}", i + 1) IN
  IF Tok(string, i) = "{" /\ k >= i + 2 THEN k ELSE 0

\* the output so far with the replacement r of one match added
Spliced(acc, r) ==
  [text |-> acc.text \o r.text, fnData |-> r.fnData, threw |-> r.threw]

\* the callback with the early return for directives taken out: a directive is
\* evaluated like any other expression, without its prefix
ReplaceExpressionEvaluated(match, prefix, expression, offset, string, fnData, now) ==
  evaluateExpressionAndFootnote(<<"{">> \o expression \o <<"}">>, expression,
                                isInsideLink(offset, Len(match), string)
                                  \/ isInsideTask(offset, string),
                                fnData, now)

\* the callback (match, prefix, expression, offset, string) => ... of the
\* replace; prefix is whether the directive group took part in the match
ReplaceExpression(match, prefix, expression, offset, string, fnData, now) ==
  IF prefix /\ isInsideTask(offset, string) THEN Replaced(match, fnData)
  ELSE evaluateExpressionAndFootnote(match, expression,
                                     isInsideLink(offset, Len(match), string)
                                       \/ isInsideTask(offset, string),
                                     fnData, now)

\* markdown.replace(expressionRegex, callback), scanning from index i;
\* acc is the output so far, its footnote data, and whether an error escaped
RECURSIVE SubstituteFrom(_, _, _, _)
SubstituteFrom(string, i, acc, now) ==
  IF acc.threw \/ i > Len(string) THEN acc
  ELSE
  LET k == ExpressionEnd(string, i) IN
  IF k = 0
  THEN SubstituteFrom(string, i + 1, [acc EXCEPT !.text = Append(acc.text, string[i])], now)
  ELSE
  LET prefix == string[i + 1] \in Directives /\ k >= i + 3 IN
  SubstituteFrom(string, k + 1,
    Spliced(acc, ReplaceExpression(SubSeq(string, i, k), prefix,
                                   SubSeq(string, IF prefix THEN i + 2 ELSE i + 1, k - 1),
                                   i, string, acc.fnData, now)),
    now)

----------------------------------------------------------------------------
(* Link resolution *)

\* format(evalResult.result, "MMMM do, yyyy") as the callback's return value
LinkDate(formatted) ==
  IF formatted = Threw THEN [text |-> <<>>, threw |-> TRUE]
  ELSE [text |-> <<formatted.s>>, threw |-> FALSE]

\* the callback of evaluateLinkContent on the evaluation of {expr}
LinkExpression(evalResult, expr) ==
  IF evalResult.type = "date" THEN LinkDate(format(evalResult.result, "MMMM do, yyyy"))
  ELSE [text |-> expr, threw |-> FALSE]

\* the output so far with the callback's return value r added
LinkSpliced(acc, r) == [text |-> acc.text \o r.text, threw |-> r.threw]

\* linkContent.replace(/\{([^}]+)\}/g, callback), scanning from index i
RECURSIVE evaluateLinkContentFrom(_, _, _, _)
evaluateLinkContentFrom(linkContent, i, acc, now) ==
  IF acc.threw \/ i > Len(linkContent) THEN acc
  ELSE
  LET k == ExpressionEnd(linkContent, i) IN
  IF k = 0
  THEN evaluateLinkContentFrom(linkContent, i + 1,
                               [acc EXCEPT !.text = Append(acc.text, linkContent[i])], now)
  ELSE evaluateLinkContentFrom(linkContent, k + 1,
         LinkSpliced(acc, LinkExpression(evaluateExpression(SubSeq(linkContent, i, k), now),
                                         SubSeq(linkContent, i + 1, k - 1))),
         now)

evaluateLinkContent(linkContent, now) ==
  evaluateLinkContentFrom(linkContent, 1, [text |-> <<>>, threw |-> FALSE], now)

\* tag: the text before the last "/", "" when there is none
extractTagAndNoteName(evaluatedContent) ==
  LET tagSeparatorIndex == LastIndexOf(evaluatedContent, "/", Len(evaluatedContent)) IN
  IF tagSeparatorIndex # 0
  THEN [tag |-> Join(SubSeq(evaluatedContent, 1, tagSeparatorIndex - 1)),
        noteName |-> SubSeq(evaluatedContent, tagSeparatorIndex + 1, Len(evaluatedContent))]
  ELSE [tag |-> "", noteName |-> evaluatedContent]

\* app.notes.find: by name and tag, or by name alone when the tag is empty
NotesFind(store, noteName, tag) ==
  LET found == {n \in store : n.name = noteName /\ (tag = "" \/ n.tag = tag)} IN
  IF found = {} THEN Null ELSE CHOOSE n \in found : TRUE

NewNote(noteName, tag) == [v |-> "note", name |-> noteName, tag |-> tag]

\* the note handle, the store and the log of create calls after the lookup
findOrCreateAlways(store, creates, noteName, tag) ==
  [noteHandle |-> NewNote(noteName, tag),
   store |-> store \cup {NewNote(noteName, tag)},
   created |-> Append(creates, NewNote(noteName, tag))]

findOrCreateNote(store, creates, noteName, tag) ==
  LET noteHandle == NotesFind(store, noteName, tag) IN
  IF noteHandle = Null
  THEN [noteHandle |-> NewNote(noteName, tag),
        store |-> store \cup {NewNote(noteName, tag)},
        created |-> Append(creates, NewNote(noteName, tag))]
  ELSE [noteHandle |-> noteHandle, store |-> store, created |-> creates]

NoteUrl(noteHandle) == "note:" \o noteHandle.tag \o "/" \o noteHandle.name

\* The text after the flag of a link body: content, "#" section, "\|" alias
ParseLinkBody(rest) ==
  LET isSep(t) == t \in {"#", BAR, "|"}
      c == IF \E k \in 1..Len(rest) : isSep(rest[k])
           THEN CHOOSE k \in 1..Len(rest) : isSep(rest[k]) /\ \A m \in 1..(k - 1) : ~isSep(rest[m])
           ELSE Len(rest) + 1
      afterHash == SubSeq(rest, c + 1, Len(rest))
      isBar(t) == t \in {BAR, "|"}
      b == IF \E k \in 1..Len(afterHash) : isBar(afterHash[k])
           THEN CHOOSE k \in 1..Len(afterHash) :
                  isBar(afterHash[k]) /\ \A m \in 1..(k - 1) : ~isBar(afterHash[m])
           ELSE Len(afterHash) + 1
      NoMatch == [ok |-> FALSE, linkContent |-> <<>>, section |-> <<>>, alias |-> <<>>]
  IN
  IF c = 1 THEN NoMatch
  ELSE IF c > Len(rest)
  THEN [ok |-> TRUE, linkContent |-> rest, section |-> <<>>, alias |-> <<>>]
  ELSE IF rest[c] = "|" THEN NoMatch
  ELSE IF rest[c] = BAR
  THEN IF c = Len(rest) THEN NoMatch
       ELSE [ok |-> TRUE, linkContent |-> SubSeq(rest, 1, c - 1), section |-> <<>>,
             alias |-> SubSeq(rest, c + 1, Len(rest))]
  ELSE \* rest[c] = "#"
  IF b = 1 THEN NoMatch
  ELSE IF b > Len(afterHash)
  THEN [ok |-> TRUE, linkContent |-> SubSeq(rest, 1, c - 1), section |-> afterHash,
        alias |-> <<>>]
  ELSE IF afterHash[b] = "|" \/ b = Len(afterHash) THEN NoMatch
  ELSE [ok |-> TRUE, linkContent |-> SubSeq(rest, 1, c - 1),
        section |-> SubSeq(afterHash, 1, b - 1),
        alias |-> SubSeq(afterHash, b + 1, Len(afterHash))]

\* linkRegex at the opening bracket at index i; closers are the tokens that
\* hold a "]".  end = 0 when the pattern does not match there.
LinkMatchAt(markdown, i, closers) ==
  LET NoMatch == [end |-> 0, isOptional |-> FALSE, linkContent |-> <<>>,
                  section |-> <<>>, alias |-> <<>>]
      e == IF \E k \in (i + 1)..Len(markdown) : markdown[k] \in closers
           THEN CHOOSE k \in (i + 1)..Len(markdown) :
                  markdown[k] \in closers /\ \A m \in (i + 1)..(k - 1) : markdown[m] \notin closers
           ELSE 0
  IN
  IF Tok(markdown, i) # LO \/ e = 0 THEN NoMatch
  ELSE IF markdown[e] # LC THEN NoMatch
  ELSE
  LET body == SubSeq(markdown, i + 1, e - 1)
      flagged == IF body # <<>> /\ Head(body) = "?" THEN ParseLinkBody(Tail(body))
                 ELSE [ok |-> FALSE, linkContent |-> <<>>, section |-> <<>>, alias |-> <<>>]
      plain == ParseLinkBody(body)
  IN
  IF flagged.ok
  THEN [end |-> e, isOptional |-> TRUE, linkContent |-> flagged.linkContent,
        section |-> flagged.section, alias |-> flagged.alias]
  ELSE IF plain.ok
  THEN [end |-> e, isOptional |-> FALSE, linkContent |-> plain.linkContent,
        section |-> plain.section, alias |-> plain.alias]
  ELSE NoMatch

\* [...markdown.matchAll(linkRegex)], scanning from index i
RECURSIVE LinkMatchesFrom(_, _, _)
LinkMatchesFrom(markdown, i, closers) ==
  IF i > Len(markdown) THEN <<>>
  ELSE LET match == LinkMatchAt(markdown, i, closers) IN
       IF match.end = 0 THEN LinkMatchesFrom(markdown, i + 1, closers)
       ELSE <<[fullMatch |-> SubSeq(markdown, i, match.end), isOptional |-> match.isOptional,
               linkContent |-> match.linkContent, section |-> match.section,
               alias |-> match.alias]>>
            \o LinkMatchesFrom(markdown, match.end + 1, closers)

\* The body of processLinks' loop for one match, on the state
\* [markdown, store, created, threw] the earlier matches left
\* the lookup of one link: isOptional ? app.notes.find : findOrCreateNote
LookedUp(match, st, noteName, tag) ==
  IF match.isOptional
  THEN [noteHandle |-> NotesFind(st.store, noteName, tag),
        store |-> st.store, created |-> st.created]
  ELSE findOrCreateNote(st.store, st.created, noteName, tag)

\* the replacement of one link, once its note has been looked up
LinkReplaced(match, st, linkContent, section, parts, looked) ==
  IF looked.noteHandle = Null /\ match.isOptional
  THEN LET replacement == <<"[[">> \o linkContent
                          \o (IF section # <<>> THEN <<"#">> \o section ELSE <<>>)
                          \o <<"]]">>
       IN [st EXCEPT !.markdown = ReplaceFirst(st.markdown, match.fullMatch, replacement)]
  ELSE
  LET noteURL == IF section # <<>> THEN NoteUrl(looked.noteHandle) \o "#" \o Join(section)
                 ELSE NoteUrl(looked.noteHandle)
      displayName == IF match.alias # <<>> THEN match.alias
                     ELSE parts.noteName \o (IF section # <<>> THEN <<"#">> \o section ELSE <<>>)
      markdownLink == <<"[">> \o displayName \o <<"](" \o noteURL \o ")">>
  IN [markdown |-> ReplaceFirst(st.markdown, match.fullMatch, markdownLink),
      store |-> looked.store, created |-> looked.created, threw |-> FALSE]

\* one link whose content and section have been evaluated
LinkNamed(match, st, linkContent, section, parts) ==
  LinkReplaced(match, st, linkContent, section, parts,
               LookedUp(match, st, Join(parts.noteName), parts.tag))

LinkEvaluated(match, st, content, sectionEval) ==
  IF content.threw \/ sectionEval.threw THEN [st EXCEPT !.threw = TRUE]
  ELSE LinkNamed(match, st, content.text, sectionEval.text,
                 extractTagAndNoteName(content.text))

ProcessLink(match, st, now) ==
  LinkEvaluated(match, st, evaluateLinkContent(match.linkContent, now),
                IF match.section # <<>> THEN evaluateLinkContent(match.section, now)
                ELSE [text |-> <<>>, threw |-> FALSE])

RECURSIVE ProcessLinkMatches(_, _, _)
ProcessLinkMatches(matches, st, now) ==
  IF matches = <<>> \/ st.threw THEN st
  ELSE ProcessLinkMatches(Tail(matches), ProcessLink(Head(matches), st, now), now)

\* processLinks(app, markdown): the markdown, the note store and the create
\* calls afterwards
processLinks(markdown, store, creates, closers, now) ==
  ProcessLinkMatches(LinkMatchesFrom(markdown, 1, closers),
                     [markdown |-> markdown, store |-> store, created |-> creates,
                      threw |-> FALSE],
                     now)

----------------------------------------------------------------------------
(* Task identifiers *)

\* the n-th identifier generateUUID hands out
NewUuid(n) == "new" \o ToString(n)

UuidComment(uuid) == "<!--{uuid:" \o uuid \o "}-->"

\* One match of taskRegex per line that has a task marker with a comment after
\* it: the greedy [^\n]* makes it the last comment of the line.  The comments
\* matched in lines[i..], in order.
RECURSIVE TaskCommentsFrom(_, _)
TaskCommentsFrom(markdown, i) ==
  IF i > Len(markdown) THEN <<>>
  ELSE
  LET nl == IndexOf(markdown, NL, i)
      lineEnd == IF nl = 0 THEN Len(markdown) ELSE nl - 1
      marker == IndexOf(SubSeq(markdown, 1, lineEnd), TaskMarker, i)
      isComment(k) == markdown[k] \in DOMAIN UuidComments
      found == marker # 0 /\ \E k \in (marker + 1)..lineEnd : isComment(k)
      last == CHOOSE k \in (marker + 1)..lineEnd :
                isComment(k) /\ \A m \in (k + 1)..lineEnd : ~isComment(m)
  IN (IF found THEN <<markdown[last]>> ELSE <<>>) \o TaskCommentsFrom(markdown, lineEnd + 2)

RECURSIVE ReplaceComments(_, _, _)
ReplaceComments(comments, modifiedMarkdown, n) ==
  IF comments = <<>> THEN modifiedMarkdown
  ELSE ReplaceComments(Tail(comments),
                       ReplaceFirst(modifiedMarkdown, <<Head(comments)>>, <<UuidComment(NewUuid(n))>>),
                       n + 1)

replaceTaskUUIDs(markdown) ==
  LET comments == TaskCommentsFrom(markdown, 1) IN
  [modifiedMarkdown |-> ReplaceComments(comments, markdown, 1),
   newTaskUUIDs |-> [n \in 1..Len(comments) |-> NewUuid(n)]]

----------------------------------------------------------------------------
(* Footnotes and indentation *)

\* fnData.content.join("\n"), from entry i on
RECURSIVE FootnoteLines(_, _)
FootnoteLines(content, i) ==
  IF i > Len(content) THEN <<>>
  ELSE <<"[^templater" \o ToString(content[i].index) \o "]: [" \o content[i].result \o "]()", NL>>
       \o content[i].expression
       \o (IF i < Len(content) THEN <<NL>> ELSE <<>>)
       \o FootnoteLines(content, i + 1)

AppendedFootnotes(markdown, fnData) ==
  IF Len(fnData.content) > 0
  THEN markdown \o <<NL, NL>> \o FootnoteLines(fnData.content, 1)
  ELSE markdown

\* string.split(/\r?\n/)
RECURSIVE SplitLines(_)
SplitLines(ts) ==
  LET nl == IndexOf(ts, NL, 1) IN
  IF nl = 0 THEN <<ts>>
  ELSE <<SubSeq(ts, 1, nl - 1)>> \o SplitLines(SubSeq(ts, nl + 1, Len(ts)))

\* lines.join("\n")
RECURSIVE JoinLines(_)
JoinLines(lines) ==
  IF lines = <<>> THEN <<>>
  ELSE IF Len(lines) = 1 THEN lines[1]
  ELSE lines[1] \o <<NL>> \o JoinLines(Tail(lines))

RECURSIVE TrimStart(_)
TrimStart(line) ==
  IF line # <<>> /\ Head(line) = Indent THEN TrimStart(Tail(line)) ELSE line

RECURSIVE TrimEnd(_)
TrimEnd(line) ==
  IF line # <<>> /\ Last(line) = Indent THEN TrimEnd(SubSeq(line, 1, Len(line) - 1)) ELSE line

Trim(line) == TrimEnd(TrimStart(line))

getCurrentLine(content, position) ==
  LET start == LastIndexOf(content, NL, position)
      end == IndexOf(content, NL, position)
      lineEnd == IF end = 0 THEN Len(content) ELSE end - 1
  IN SubSeq(content, start + 1, lineEnd)

getIndentation(line) == SubSeq(line, 1, Len(line) - Len(TrimStart(line)))

\* "bullet", "number" or "none": the bullet pattern /^\s*-\s/ is tested first
\* and also matches a task marker
getLineIndentableType(line) ==
  LET first == Tok(TrimStart(line), 1) IN
  IF first \in {BulletMarker, TaskMarker} THEN "bullet"
  ELSE IF first = NumberMarker THEN "number"
  ELSE "none"

isLineIndentable(line) == getLineIndentableType(line) # "none"

stripIndentation(line) ==
  LET rest == TrimStart(line) IN
  IF Tok(rest, 1) \in {TaskMarker, BulletMarker, NumberMarker} THEN Trim(Tail(rest))
  ELSE Trim(line)

EndsWithContinuation(line) == Trim(line) # <<>> /\ Last(Trim(line)) = Continuation

\* a loop that never stops: every line that is left gets the indentation
AdjustLinesNeverStops(lines, i, prevLineContinuation, indentation, modifiedLines) ==
  modifiedLines \o [k \in 1..(Len(lines) - i + 1) |-> indentation \o lines[i + k - 1]]

\* a loop that stops at once: every line that is left is passed on as it is
AdjustLinesStopsAtOnce(lines, i, prevLineContinuation, indentation, modifiedLines) ==
  modifiedLines \o SubSeq(lines, i, Len(lines))

\* the loop of adjustTemplateIndentation over lines[i..]
RECURSIVE AdjustLines(_, _, _, _, _)
AdjustLines(lines, i, prevLineContinuation, indentation, modifiedLines) ==
  IF i > Len(lines) THEN modifiedLines
  ELSE
  LET line == lines[i] IN
  IF line = <<>> \/ prevLineContinuation
  THEN AdjustLines(lines, i + 1, EndsWithContinuation(line), indentation,
                   Append(modifiedLines, line))
  ELSE IF isLineIndentable(line)
  THEN AdjustLines(lines, i + 1, EndsWithContinuation(line), indentation,
                   Append(modifiedLines, indentation \o line))
  ELSE modifiedLines \o SubSeq(lines, i, Len(lines))

adjustTemplateIndentation(markdown, indentation, indentationType) ==
  LET allLines == SplitLines(markdown)
      firstLine == Head(allLines)
      lines == Tail(allLines)
  IN
  IF getLineIndentableType(firstLine) = indentationType
  THEN JoinLines(AdjustLines(lines, 1, EndsWithContinuation(firstLine), indentation,
                             <<stripIndentation(firstLine)>>))
  ELSE IF isLineIndentable(firstLine)
  THEN JoinLines(AdjustLines(lines, 1, EndsWithContinuation(firstLine), indentation,
                             <<<<>>, indentation \o firstLine>>))
  ELSE <<NL>> \o markdown

----------------------------------------------------------------------------
(* One run of processInsertTemplate *)

\* the longest template, in fragments, and the most task lines with an identifier
MaxParts == 3
MaxTasks == 2

DocParts ==
  {<<"{", "today", "}">>, <<"{", "foo", "}">>, <<"{", "start:", "today", "}">>,
   <<LO, "Foo", LC>>, <<LO, "?", "Foo", BAR, "Al", LC>>, <<LO, "t", "/", "{", "foo", "}", LC>>,
   <<NL>>, <<TaskMarker>>, <<BulletMarker>>}

TaskLines ==
  {<<TaskMarker, "do", "{", "start:", "today", "}", "<!--{uuid:a}-->">>,
   <<TaskMarker, "{", "hide:", "foo", "}", "<!--{uuid:b}-->">>}

RECURSIVE Concats(_, _)
Concats(parts, n) ==
  IF n = 0 THEN {<<>>}
  ELSE LET shorter == Concats(parts, n - 1) IN
       shorter \cup {t \o part : t \in shorter, part \in parts}

RECURSIVE LinesOf(_, _)
LinesOf(lines, n) ==
  IF n = 0 THEN {}
  ELSE IF n = 1 THEN lines
  ELSE LET shorter == LinesOf(lines, n - 1) IN
       shorter \cup {t \o <<NL>> \o line : t \in shorter, line \in lines}

DocTemplates == Concats(DocParts, MaxParts)

TaskTemplates == LinesOf(TaskLines, MaxTasks)

Config(mode, answer, content) == [insertMode |-> mode, host |-> answer, noteContent |-> content]

DocConfigs ==
  {Config("smart", "ok", c) : c \in {<<"note">>, <<BulletMarker, "item">>, <<Indent, NumberMarker>>}}
  \cup {Config("smart", h, <<"note">>) : h \in {"noSelection", "tagLost"}}
  \cup {Config("context", h, <<"note">>) : h \in {"ok", "noSelection"}}
  \cup {Config(m, "ok", <<"note">>) : m \in {"replace", "insert"}}
  \cup {Config("insertByReplace", "ok", c) : c \in {<<Continuation>>, <<"note">>}}

TaskConfigs ==
  {Config("replace", "ok", <<"note">>), Config("smart", "ok", <<BulletMarker, "item">>),
   Config("smart", "noSelection", <<"note">>), Config("insert", "ok", <<"note">>)}

NoteStores == {{}, {NewNote("Foo", "")}}

Init ==
  /\ evalInput = <<>> /\ evalOutput = Pending
  /\ refNow = InstantV(6, 10 * MsPerHour)
  /\ \/ \E t \in DocTemplates, c \in DocConfigs :
          /\ template = t /\ insertMode = c.insertMode /\ host = c.host
          /\ noteContent = c.noteContent /\ notes \in NoteStores
     \/ \E t \in TaskTemplates, c \in TaskConfigs :
          /\ template = t /\ insertMode = c.insertMode /\ host = c.host
          /\ noteContent = c.noteContent /\ notes = {}
  /\ created = <<>>
  /\ pc = "start"
  /\ templateMarkdown = template
  /\ footnoteData = [counter |-> 1, content |-> <<>>]
  /\ newTaskUUIDs = <<>> /\ stepLog = <<>> /\ returned = "pending"
  /\ tasks = <<>> /\ clock = 0 /\ tasksPromise = "none" /\ errorLog = <<>>
  /\ polls = <<>>
  /\ storage = NoStorage

Logged(step, input, output) ==
  Append(stepLog, [step |-> step, input |-> input, output |-> output])

\* an error escapes processInsertTemplate: its promise rejects
Reject ==
  /\ pc' = "done" /\ returned' = "rejected"
  /\ UNCHANGED <<templateMarkdown, footnoteData, notes, created, newTaskUUIDs, stepLog,
                 noteContent, taskVars>>

\* Step 2: templateMarkdown.replace(expressionRegex, ...)
SubstituteExpressions ==
  /\ pc = "start"
  /\ \E r \in {SubstituteFrom(templateMarkdown, 1, Replaced(<<>>, footnoteData), refNow)} :
     IF r.threw THEN Reject
     ELSE /\ pc' = "substituted"
          /\ templateMarkdown' = r.text
          /\ footnoteData' = r.fnData
          /\ stepLog' = Logged("substitution", templateMarkdown, r.text)
          /\ UNCHANGED <<notes, created, newTaskUUIDs, returned, noteContent, taskVars>>
  /\ UNCHANGED <<evalVars, template, insertMode, host>>

\* the tokens of the markdown that hold a "]"
Closers ==
  {LC, "]]", TaskMarker}
  \cup {FootnoteRef(footnoteData.content[i].result, footnoteData.content[i].index) :
          i \in 1..Len(footnoteData.content)}

\* the text processLinks is called on
LinksInputStale == template

LinksInput == templateMarkdown

\* Step 3: templateMarkdown = await processLinks(app, templateMarkdown)
ResolveLinks ==
  /\ pc = "substituted"
  /\ \E r \in {processLinks(LinksInput, notes, created, Closers, refNow)} :
     IF r.threw THEN Reject
     ELSE /\ pc' = "linked"
          /\ templateMarkdown' = r.markdown
          /\ notes' = r.store
          /\ created' = r.created
          /\ stepLog' = Logged("links", LinksInput, r.markdown)
          /\ UNCHANGED <<footnoteData, newTaskUUIDs, returned, noteContent, taskVars>>
  /\ UNCHANGED <<evalVars, template, insertMode, host>>

\* Step 4: replaceTaskUUIDs(templateMarkdown)
RemapTaskIds ==
  /\ pc = "linked"
  /\ \E r \in {replaceTaskUUIDs(templateMarkdown)} :
     /\ templateMarkdown' = r.modifiedMarkdown
     /\ newTaskUUIDs' = r.newTaskUUIDs
     /\ stepLog' = Logged("taskIds", templateMarkdown, r.modifiedMarkdown)
  /\ pc' = "remapped"
  /\ UNCHANGED <<evalVars, template, insertMode, host, noteContent, notes, created,
                 footnoteData, returned, taskVars>>

\* Step 5: append the footnotes
AppendFootnotes ==
  /\ pc = "remapped"
  /\ templateMarkdown' = AppendedFootnotes(templateMarkdown, footnoteData)
  /\ stepLog' = Logged("footnotes", templateMarkdown, templateMarkdown')
  /\ pc' = "footnoted"
  /\ UNCHANGED <<evalVars, template, insertMode, host, noteContent, notes, created,
                 footnoteData, newTaskUUIDs, returned, taskVars>>

\* "<Templater-" + generateShortUUID() + ">"
SelectionTag == "<Templater-tag>"

InsertPosition == IndexOf(noteContent, SelectionTag, 1)

CurrentLine == getCurrentLine(noteContent, InsertPosition)

\* Step 6: insert the tag at the selection and find its line
LocateInsertion ==
  /\ pc = "footnoted" /\ insertMode = "smart"
  /\ \/ /\ host = "noSelection"
        /\ pc' = "done" /\ returned' = "text"
        /\ UNCHANGED <<noteContent, errorLog>>
     \/ /\ host = "tagLost"
        /\ errorLog' = Append(errorLog, "Template Insert tag not found.")
        /\ pc' = "done" /\ returned' = "undefined"
        /\ UNCHANGED noteContent
     \/ /\ host = "ok"
        /\ noteContent' = noteContent \o <<SelectionTag>>
        /\ pc' = "located"
        /\ UNCHANGED <<returned, errorLog>>
  /\ UNCHANGED <<evalVars, template, insertMode, host, notes, created, templateMarkdown,
                 footnoteData, newTaskUUIDs, stepLog, tasks, clock, tasksPromise>>

\* Step 7: match the indentation of the insertion line
AdjustIndentation ==
  /\ pc = "located" /\ isLineIndentable(CurrentLine)
  /\ templateMarkdown' = adjustTemplateIndentation(templateMarkdown, getIndentation(CurrentLine),
                                                   getLineIndentableType(CurrentLine))
  /\ stepLog' = Logged("indentation", templateMarkdown, templateMarkdown')
  /\ pc' = "adjusted"
  /\ UNCHANGED <<evalVars, template, insertMode, host, noteContent, notes, created,
                 footnoteData, newTaskUUIDs, returned, taskVars>>

\* insertContent gives the inserted tasks identifiers of its own
RECURSIVE HostInserted(_)
HostInserted(markdown) ==
  IF markdown = <<>> THEN <<>>
  ELSE <<IF \E n \in 1..Len(markdown) : Head(markdown) = UuidComment(NewUuid(n))
         THEN "<!--{uuid:host}-->" ELSE Head(markdown)>>
       \o HostInserted(Tail(markdown))

NoUpdate == [v |-> "none"]

\* the closure of processTasks for one identifier, about to call getTask
StartedTask == [pc |-> "lookup", result |-> "pending", update |-> NoUpdate]

\* Step 8: hand the text to the note store, call processTasks, return null
Deliver ==
  /\ \/ /\ pc = "adjusted" \/ (pc = "located" /\ ~isLineIndentable(CurrentLine))
        /\ noteContent' = ReplaceFirst(noteContent, <<SelectionTag>>, templateMarkdown)
     \/ /\ pc = "footnoted" /\ insertMode = "context" /\ host = "ok"
        /\ noteContent' = noteContent \o templateMarkdown
     \/ /\ pc = "footnoted" /\ insertMode = "replace"
        /\ noteContent' = templateMarkdown
     \/ /\ pc = "footnoted" /\ insertMode = "insertByReplace"
        /\ noteContent' = templateMarkdown
                          \o (IF noteContent = <<Continuation>> THEN <<>> ELSE <<NL>> \o noteContent)
     \/ /\ pc = "footnoted"
        /\ insertMode \notin {"smart", "replace", "insertByReplace"}
        /\ ~(insertMode = "context" /\ host = "ok")
        /\ noteContent' = noteContent \o <<NL>> \o HostInserted(templateMarkdown)
  /\ stepLog' = Logged("deliver", templateMarkdown, noteContent')
  /\ tasks' = [i \in 1..Len(newTaskUUIDs) |-> StartedTask]
  /\ clock' = 0
  /\ tasksPromise' = "pending"
  /\ pc' = "done" /\ returned' = "null"
  /\ UNCHANGED <<evalVars, template, insertMode, host, notes, created, templateMarkdown,
                 footnoteData, newTaskUUIDs, errorLog>>

----------------------------------------------------------------------------
(* processTasks: one closure per new task *)

maxWaitTime == 5000
checkInterval == 100

\* task.content: the text of the task's line between its marker and its comment
TaskContent(content, uuid) ==
  LET c == IndexOf(content, UuidComment(uuid), 1)
      lineStart == LastIndexOf(content, NL, c) + 1
      marker == IndexOf(content, TaskMarker, lineStart)
      from == IF marker # 0 /\ marker < c THEN marker + 1 ELSE lineStart
  IN Trim(SelectSeq(SubSeq(content, from, c - 1), LAMBDA t : t \notin DOMAIN UuidComments))

\* Math.floor(date.getTime() / 1000)
Timestamp(date) == IF date.valid THEN InstantV(date.d, (date.ms \div 1000) * 1000) ELSE NaN

\* the matches of /\{(start|hide):([^}]+)\}/g in description[i..]
RECURSIVE DirectiveMatchesFrom(_, _)
DirectiveMatchesFrom(description, i) ==
  IF i > Len(description) THEN <<>>
  ELSE
  LET k == IndexOf(description, "}", i + 2) IN
  IF description[i] = "{" /\ Tok(description, i + 1) \in Directives /\ k >= i + 3
  THEN <<[fullMatch |-> SubSeq(description, i, k), prefix |-> description[i + 1],
          expression |-> SubSeq(description, i + 2, k - 1)]>>
       \o DirectiveMatchesFrom(description, k + 1)
  ELSE DirectiveMatchesFrom(description, i + 1)

\* the body of the loop over the directives, on the evaluation of one
Directed(match, evaluation, update) ==
  LET timestamp == Timestamp(evaluation.result)
      description == Trim(ReplaceFirst(update.content, match.fullMatch, Trim(match.expression)))
  IN
  IF evaluation.type \notin {"date", "dateTime", "time"} THEN update
  ELSE IF match.prefix = "start:"
  THEN [update EXCEPT !.content = description, !.startAt = timestamp]
  ELSE [update EXCEPT !.content = description, !.hideUntil = timestamp]

\* the loop over the matches, on the update [content, startAt, hideUntil]
RECURSIVE ApplyDirectives(_, _, _)
ApplyDirectives(matches, update, now) ==
  IF matches = <<>> THEN update
  ELSE ApplyDirectives(Tail(matches),
         Directed(Head(matches),
                  evaluateExpression(<<"{">> \o Head(matches).expression \o <<"}">>, now),
                  update),
         now)

\* the argument of app.updateTask for a task with this description
TaskUpdate(description, now) ==
  ApplyDirectives(DirectiveMatchesFrom(description, 1),
                  [v |-> "update", content |-> description, startAt |-> Null, hideUntil |-> Null],
                  now)

\* waitForTask's test after a lookup that found nothing
TimedOutNever(startTime, nowMs) == FALSE

TimedOut(startTime, nowMs) == nowMs - startTime > maxWaitTime

\* the closure after waitForTask returned null: whether it logs, and its state
AfterNullFallsThrough(task) ==
  [logs |-> TRUE,
   task |-> [task EXCEPT !.pc = "updating", !.result = "null",
                         !.update = [v |-> "update", content |-> <<>>, startAt |-> Null,
                                     hideUntil |-> Null]]]

AfterNull(task) ==
  [logs |-> TRUE, task |-> [task EXCEPT !.pc = "skipped", !.result = "null"]]

\* a rejected getTask or updateTask ends the closure it was awaited in
RejectedAbortsAll(ts, i) ==
  [j \in DOMAIN ts |->
     IF j = i \/ ts[j].pc \in {"lookup", "sleeping", "updating"}
     THEN [ts[j] EXCEPT !.pc = "failed"] ELSE ts[j]]

Rejected(ts, i) == [ts EXCEPT ![i].pc = "failed"]

\* one pass of waitForTask's loop for task i: app.getTask, and what follows it
Lookup(i) ==
  /\ i \in DOMAIN tasks
  /\ tasks[i].pc = "lookup"
  /\ LET looked == tasks[i] IN
     \/ \* the task is there
        /\ Contains(noteContent, UuidComment(newTaskUUIDs[i]))
        /\ tasks' = [tasks EXCEPT ![i] =
                       [looked EXCEPT !.pc = "updating", !.result = "task",
                          !.update = TaskUpdate(TaskContent(noteContent, newTaskUUIDs[i]), refNow)]]
        /\ UNCHANGED errorLog
     \/ \* not there, or not yet
        IF TimedOut(0, clock)
        THEN LET after == AfterNull(looked) IN
             /\ tasks' = [tasks EXCEPT ![i] = after.task]
             /\ errorLog' = IF after.logs THEN Append(errorLog, newTaskUUIDs[i]) ELSE errorLog
        ELSE /\ tasks' = [tasks EXCEPT ![i] = [looked EXCEPT !.pc = "sleeping"]]
             /\ UNCHANGED errorLog
     \/ \* app.getTask rejects
        /\ tasks' = Rejected([tasks EXCEPT ![i] = looked], i)
        /\ UNCHANGED errorLog
  /\ UNCHANGED <<evalVars, pipeVars, clock, tasksPromise>>

\* checkInterval passes: the timers of the sleeping closures fire
Tick ==
  /\ \E i \in DOMAIN tasks : tasks[i].pc = "sleeping"
  /\ \A i \in DOMAIN tasks : tasks[i].pc # "lookup"
  /\ clock <= maxWaitTime + checkInterval
  /\ clock' = clock + checkInterval
  /\ tasks' = [i \in DOMAIN tasks |->
                 IF tasks[i].pc = "sleeping" THEN [tasks[i] EXCEPT !.pc = "lookup"] ELSE tasks[i]]
  /\ UNCHANGED <<evalVars, pipeVars, tasksPromise, errorLog>>

\* app.updateTask settles for task i
UpdateDone(i) ==
  /\ i \in DOMAIN tasks
  /\ tasks[i].pc = "updating"
  /\ \/ tasks' = [tasks EXCEPT ![i].pc = "updated"]
     \/ tasks' = Rejected(tasks, i)
  /\ UNCHANGED <<evalVars, pipeVars, clock, tasksPromise, errorLog>>

\* Promise.all over the closures' promises
PromiseRace(ts) ==
  IF \E i \in DOMAIN ts : ts[i].pc = "failed" THEN "rejected"
  ELSE IF ts = <<>> \/ \E i \in DOMAIN ts : ts[i].pc \in {"updated", "skipped"} THEN "fulfilled"
  ELSE "pending"

PromiseAll(ts) ==
  IF \E i \in DOMAIN ts : ts[i].pc = "failed" THEN "rejected"
  ELSE IF \A i \in DOMAIN ts : ts[i].pc \in {"updated", "skipped"} THEN "fulfilled"
  ELSE "pending"

\* await Promise.all(updatePromises) settles the promise of processTasks
JoinTasks ==
  /\ tasksPromise = "pending"
  /\ PromiseAll(tasks) # "pending"
  /\ tasksPromise' = PromiseAll(tasks)
  /\ UNCHANGED <<evalVars, pipeVars, tasks, clock, errorLog>>

Next ==
  \/ SubstituteExpressions /\ UNCHANGED <<polls, storage>>
  \/ ResolveLinks /\ UNCHANGED <<polls, storage>>
  \/ RemapTaskIds /\ UNCHANGED <<polls, storage>>
  \/ AppendFootnotes /\ UNCHANGED <<polls, storage>>
  \/ LocateInsertion /\ UNCHANGED <<polls, storage>>
  \/ AdjustIndentation /\ UNCHANGED <<polls, storage>>
  \/ Deliver /\ UNCHANGED <<polls, storage>>
  \/ \E i \in 1..(MaxTasks + 1) : Lookup(i) /\ UNCHANGED <<polls, storage>>
  \/ Tick /\ UNCHANGED <<polls, storage>>
  \/ \E i \in 1..(MaxTasks + 1) : UpdateDone(i) /\ UNCHANGED <<polls, storage>>
  \/ JoinTasks /\ UNCHANGED <<polls, storage>>

Spec == Init /\ [][Next]_vars

----------------------------------------------------------------------------
(* waitForTask under observation: the run of a template with one task,     *)
(* with the lookups of its closure counted                                 *)

NoPoll == [lookups |-> 0, lastLookup |-> 0 - 1, gaps |-> {}]

\* a lookup of task i at the present time
Polled(i) ==
  [polls EXCEPT ![i] = [lookups |-> @.lookups + 1,
                        lastLookup |-> clock,
                        gaps |-> IF @.lookups = 0 THEN @.gaps
                                 ELSE @.gaps \cup {clock - @.lastLookup}]]

InitWait ==
  /\ evalInput = <<>> /\ evalOutput = Pending
  /\ refNow = InstantV(6, 10 * MsPerHour)
  /\ \E t \in LinesOf(TaskLines, 1), c \in TaskConfigs :
       /\ template = t /\ insertMode = c.insertMode /\ host = c.host
       /\ noteContent = c.noteContent /\ notes = {}
  /\ created = <<>>
  /\ pc = "start"
  /\ templateMarkdown = template
  /\ footnoteData = [counter |-> 1, content |-> <<>>]
  /\ newTaskUUIDs = <<>> /\ stepLog = <<>> /\ returned = "pending"
  /\ tasks = <<>> /\ clock = 0 /\ tasksPromise = "none" /\ errorLog = <<>>
  /\ polls = <<>>
  /\ storage = NoStorage

NextWait ==
  \/ SubstituteExpressions /\ UNCHANGED <<polls, storage>>
  \/ ResolveLinks /\ UNCHANGED <<polls, storage>>
  \/ RemapTaskIds /\ UNCHANGED <<polls, storage>>
  \/ AppendFootnotes /\ UNCHANGED <<polls, storage>>
  \/ LocateInsertion /\ UNCHANGED <<polls, storage>>
  \/ AdjustIndentation /\ UNCHANGED <<polls, storage>>
  \/ Deliver /\ polls' = [i \in DOMAIN tasks' |-> NoPoll] /\ UNCHANGED storage
  \/ \E i \in 1..(MaxTasks + 1) : Lookup(i) /\ polls' = Polled(i) /\ UNCHANGED storage
  \/ Tick /\ UNCHANGED <<polls, storage>>
  \/ \E i \in 1..(MaxTasks + 1) : UpdateDone(i) /\ UNCHANGED <<polls, storage>>
  \/ JoinTasks /\ UNCHANGED <<polls, storage>>

SpecWait == InitWait /\ [][NextWait]_vars

----------------------------------------------------------------------------
(* C4 *)

\* C4: provided its lookups return, waitForTask makes a bounded number of
\* lookups (at most maxWaitTime \div checkInterval + 2); it stops looking as
\* soon as a lookup finds the task; it gives null only after a lookup made
\* more than maxWaitTime after its start, and goes on waiting after any
\* earlier one; consecutive lookups are checkInterval apart.
C4_WaitBounded ==
  \A i \in DOMAIN polls :
    /\ polls[i].lookups <= maxWaitTime \div checkInterval + 2
    /\ tasks[i].result = "task" => tasks[i].pc \notin {"lookup", "sleeping"}
    /\ tasks[i].result = "null" =>
         /\ polls[i].lastLookup > maxWaitTime
         /\ tasks[i].pc \notin {"lookup", "sleeping"}
    /\ tasks[i].pc = "sleeping" => polls[i].lastLookup <= maxWaitTime
    /\ polls[i].gaps \subseteq {checkInterval}

\* the task never showed up: null after the lookup at maxWaitTime + checkInterval
C4_Witness ==
  /\ polls # <<>>
  /\ tasks[1].result = "null"
  /\ polls[1].lookups = maxWaitTime \div checkInterval + 2
  /\ polls[1].gaps = {checkInterval}

----------------------------------------------------------------------------
(* What the template says, read without the pipeline *)

\* the matches of the expression pattern in string[i..], in scan order
RECURSIVE ExpressionsFrom(_, _)
ExpressionsFrom(string, i) ==
  IF i > Len(string) THEN <<>>
  ELSE IF ExpressionEnd(string, i) = 0 THEN ExpressionsFrom(string, i + 1)
  ELSE <<[at |-> i, text |-> SubSeq(string, i, ExpressionEnd(string, i))]>>
       \o ExpressionsFrom(string, ExpressionEnd(string, i) + 1)

\* index i lies between the opening and the closing delimiter of one link
NestedInLink(i, string) ==
  \E o \in 1..(i - 1), c \in (i + 1)..Len(string) :
    /\ string[o] = LO /\ string[c] = LC
    /\ \A k \in (o + 1)..(c - 1) : string[k] \notin {LO, LC}

\* the line that holds index i begins with the task marker
OnTaskLine(i, string) ==
  \E b \in 1..i :
    /\ string[b] = TaskMarker
    /\ b = 1 \/ string[b - 1] = NL
    /\ \A k \in b..i : string[k] # NL

IsUnhandled(text) == evaluateExpression(text, refNow).type = "unhandled"

\* the expressions that are due a footnote
Footnoted(string) ==
  SelectSeq(ExpressionsFrom(string, 1),
            LAMBDA m : /\ ~NestedInLink(m.at, string)
                       /\ ~OnTaskLine(m.at, string)
                       /\ ~IsUnhandled(m.text))

\* the number of places where pat occurs in ts[i..]
RECURSIVE CountFrom(_, _, _)
CountFrom(ts, pat, i) ==
  IF i + Len(pat) - 1 > Len(ts) THEN 0
  ELSE (IF SubSeq(ts, i, i + Len(pat) - 1) = pat THEN 1 ELSE 0) + CountFrom(ts, pat, i + 1)

Delivered == returned = "null"

Substituted == pc # "start" /\ returned # "rejected"

----------------------------------------------------------------------------
(* C1 *)

FootnotesAre(due) ==
  /\ Len(footnoteData.content) = Len(due)
  /\ footnoteData.counter = Len(due) + 1
  /\ \A k \in 1..Len(footnoteData.content) : footnoteData.content[k].index = k

\* C1: after substitution the footnotes of the run are numbered 1..n in scan
\* order, n being the number of expressions of the template that stand
\* outside any link and off any task line and do not evaluate to Unhandled;
\* the counter started at 1.
C1_FootnoteIndices == Substituted => FootnotesAre(Footnoted(template))

----------------------------------------------------------------------------
(* C2 *)

StepNames == [k \in 1..Len(stepLog) |-> stepLog[k].step]

IsPrefix(a, b) == Len(a) <= Len(b) /\ SubSeq(b, 1, Len(a)) = a

----------------------------------------------------------------------------
(* C5 *)

Finished(task) == task.pc \in {"updated", "skipped", "failed"}

\* C5: a task that did not show up before the deadline is logged and gets
\* no update; the step in which its wait ends changes no other task, so
\* every other task goes on to its own update.
C5_TimeoutSkipsOneTask ==
  [][\A i \in DOMAIN tasks :
       /\ tasks'[i].result = "null" =>
            /\ tasks'[i].pc = "skipped"
            /\ tasks'[i].update = NoUpdate
            /\ Contains(errorLog', newTaskUUIDs[i])
       /\ (tasks[i].result # "null" /\ tasks'[i].result = "null") =>
            \A j \in DOMAIN tasks \ {i} : tasks'[j] = tasks[j]
       /\ tasks[i].result = "null" => tasks'[i] = tasks[i]]_vars

\* the first task timed out and was logged; the second one was updated
C5_Witness ==
  /\ Len(tasks) = 2
  /\ tasks[1].result = "null" /\ tasks[1].pc = "skipped"
  /\ errorLog = <<newTaskUUIDs[1]>>
  /\ tasks[2].pc = "updated" /\ tasks[2].update # NoUpdate

----------------------------------------------------------------------------
(* C6 *)

\* C6 as stated: when the promise of processInsertTemplate has resolved,
\* every lookup and update the run started has finished.
C6_JoinedBeforeReturn ==
  Delivered => \A i \in DOMAIN tasks : Finished(tasks[i])

\* C6, amended: the updates of a run are awaited together by processTasks,
\* whose promise processInsertTemplate does not await: when the promise of
\* processTasks is fulfilled, every lookup and update the run started has
\* finished.
C6_JoinedByProcessTasks ==
  tasksPromise = "fulfilled" =>
    \A i \in DOMAIN tasks : tasks[i].pc \in {"updated", "skipped"}

\* two tasks, one updated and one timed out, and the promise fulfilled after both
C6_Witness ==
  /\ tasksPromise = "fulfilled"
  /\ Len(tasks) = 2
  /\ tasks[1].pc = "updated" /\ tasks[2].pc = "skipped"
  /\ Delivered

----------------------------------------------------------------------------
(* C7 *)

\* C7: the step in which a getTask or updateTask call of one task rejects
\* changes no other task, and the failed closure takes no further step, so
\* every sibling is left to its own lookups and its own update.
C7_FailureIsolated ==
  [][\A i \in DOMAIN tasks :
       /\ (tasks[i].pc # "failed" /\ tasks'[i].pc = "failed") =>
            \A j \in DOMAIN tasks \ {i} : tasks'[j] = tasks[j]
       /\ (tasks[i].pc = "failed") => tasks'[i] = tasks[i]]_vars

\* the first task's call was rejected; the second task was updated all the same
C7_Witness ==
  /\ Len(tasks) = 2
  /\ tasks[1].pc = "failed"
  /\ tasks[2].pc = "updated" /\ tasks[2].result = "task"
  /\ tasksPromise = "rejected"

----------------------------------------------------------------------------
(* C8, C9 *)

LinkStep(k) == stepLog[k].step = "links"

\* the links of the text that link resolution worked on
LinksOf(k) == LinkMatchesFrom(stepLog[k].input, 1, Closers)

\* the (tag, name) a link evaluates to
LinkTarget(match) == extractTagAndNoteName(evaluateLinkContent(match.linkContent, refNow).text)

NoteMissing(target) == NotesFind(notes, Join(target.noteName), target.tag) = Null

WasCreated(target) ==
  \E c \in 1..Len(created) :
    created[c].name = Join(target.noteName) /\ created[c].tag = target.tag

\* the link as written, its "?" taken out, with its brackets and bar
\* escaped as in the template or plain
Unescape(t) == IF t = LO THEN "[[" ELSE IF t = LC THEN "]]" ELSE IF t = BAR THEN "|" ELSE t

WithoutFlag(fullMatch) == <<Head(fullMatch)>> \o SubSeq(fullMatch, 3, Len(fullMatch))

KeptAsText(fullMatch, output) ==
  \/ FindSeq(output, WithoutFlag(fullMatch), 1) # 0
  \/ FindSeq(output, [k \in 1..(Len(fullMatch) - 1) |-> Unescape(WithoutFlag(fullMatch)[k])], 1) # 0

\* C8: after link resolution, a link with the "?" flag whose note does not
\* exist has caused no creation, and the output holds the link as bracket
\* text with only the "?" removed.
C8_OptionalLinkKept ==
  \A k \in 1..Len(stepLog) : LinkStep(k) =>
    \A l \in 1..Len(LinksOf(k)) :
      (LinksOf(k)[l].isOptional /\ NoteMissing(LinkTarget(LinksOf(k)[l]))) =>
        /\ ~WasCreated(LinkTarget(LinksOf(k)[l]))
        /\ KeptAsText(LinksOf(k)[l].fullMatch, stepLog[k].output)

\* C9: link resolution creates a note only when the lookup by (name, tag)
\* finds none in the store: no note it creates matches a note that was there
\* before, and none is created twice, so two links that evaluate to the same
\* (tag, name) resolve to one note.
C9_CreateOnlyWhenMissing ==
  [][(pc = "substituted" /\ pc' = "linked") =>
       \A c \in 1..Len(created') :
         /\ \A n \in notes :
              ~(n.name = created'[c].name /\ (created'[c].tag = "" \/ n.tag = created'[c].tag))
         /\ \A d \in 1..Len(created') : d # c => created'[d] # created'[c]
         /\ created'[c] \in notes']_vars

\* two links to the same missing note: one creation, and both resolved to it
C9_Witness ==
  /\ template = <<LO, "Foo", LC, LO, "Foo", LC>>
  /\ pc = "linked"
  /\ created = <<NewNote("Foo", "")>>
  /\ templateMarkdown = <<"[", "Foo", "](note:/Foo)", "[", "Foo", "](note:/Foo)">>

----------------------------------------------------------------------------
(* C10 *)

Evaluated(string) ==
  SelectSeq(ExpressionsFrom(string, 1), LAMBDA m : ~IsUnhandled(m.text))

\* C10: every expression of the template that evaluates to Unhandled stands
\* in the delivered text as often as in the template, braces included, and
\* the footnotes are no more than the expressions that evaluate.
C10_UnhandledVerbatim ==
  Delivered =>
    /\ \A k \in 1..Len(ExpressionsFrom(template, 1)) :
         IsUnhandled(ExpressionsFrom(template, 1)[k].text) =>
           CountFrom(templateMarkdown, ExpressionsFrom(template, 1)[k].text, 1)
             >= CountFrom(template, ExpressionsFrom(template, 1)[k].text, 1)
    /\ Len(footnoteData.content) <= Len(Evaluated(template))

----------------------------------------------------------------------------
(* C11 *)

\* the match m carries a directive prefix
IsDirective(m) == Len(m.text) >= 4 /\ m.text[2] \in Directives

\* the directive expressions on the task lines of string, in scan order, each
\* with the number of its line
DirectivesOnTaskLines(string) ==
  LET found == SelectSeq(ExpressionsFrom(string, 1),
                         LAMBDA m : IsDirective(m) /\ OnTaskLine(m.at, string))
  IN [k \in DOMAIN found |->
        [line |-> CountFrom(SubSeq(string, 1, found[k].at), <<NL>>, 1),
         text |-> found[k].text]]

\* the record that the log holds about the substitution step
SubstitutionLogged(entry) == entry.step = "substitution"

\* C11: expression substitution leaves every start: or hide: expression of a
\* task line in its line exactly as written, and none of them gets a footnote:
\* the footnotes are at most as many as the other expressions of the text.
C11_DirectiveUntouched ==
  \A k \in DOMAIN stepLog :
    SubstitutionLogged(stepLog[k]) =>
      /\ DirectivesOnTaskLines(stepLog[k].output) = DirectivesOnTaskLines(stepLog[k].input)
      /\ Len(footnoteData.content) + Len(DirectivesOnTaskLines(stepLog[k].input))
           <= Len(ExpressionsFrom(stepLog[k].input, 1))

C11_Witness ==
  \E k \in DOMAIN stepLog :
    /\ SubstitutionLogged(stepLog[k])
    /\ Len(DirectivesOnTaskLines(stepLog[k].input)) = 2
    /\ \E d \in DOMAIN DirectivesOnTaskLines(stepLog[k].input) :
         ~IsUnhandled(<<"{">> \o SubSeq(DirectivesOnTaskLines(stepLog[k].input)[d].text, 3,
                                        Len(DirectivesOnTaskLines(stepLog[k].input)[d].text)))

----------------------------------------------------------------------------
(* processTasks on one task whose description holds directives *)

\* the most fragments of the description of the task
MaxDirectives == 2

DirectiveParts ==
  {<<"do">>, <<"{", "start:", "today", "}">>, <<"{", "hide:", "today", "}">>,
   <<"{", "hide:", "foo", "}">>, <<"{", "start:", "1", "+", "1", "}">>,
   <<"{", "hide:", FmtOk, "today", "}">>,
   <<"{", "start:", "foo", "{", "hide:", "today", "}">>}

DirectiveLines ==
  {<<TaskMarker>> \o d \o <<"<!--{uuid:a}-->">> :
     d \in Concats(DirectiveParts, MaxDirectives) \ {<<>>}}

InitDirectives ==
  /\ evalInput = <<>> /\ evalOutput = Pending
  /\ refNow = InstantV(6, 10 * MsPerHour)
  /\ \E t \in DirectiveLines, c \in TaskConfigs :
       /\ template = t /\ insertMode = c.insertMode /\ host = c.host
       /\ noteContent = c.noteContent /\ notes = {}
  /\ created = <<>>
  /\ pc = "start"
  /\ templateMarkdown = template
  /\ footnoteData = [counter |-> 1, content |-> <<>>]
  /\ newTaskUUIDs = <<>> /\ stepLog = <<>> /\ returned = "pending"
  /\ tasks = <<>> /\ clock = 0 /\ tasksPromise = "none" /\ errorLog = <<>>
  /\ polls = <<>>
  /\ storage = NoStorage

SpecDirectives == InitDirectives /\ [][Next]_vars

----------------------------------------------------------------------------
(* C12 *)

\* the directive evaluates to one of the date kinds
IsDateKind(match) ==
  evaluateExpression(<<"{">> \o match.expression \o <<"}">>, refNow).type
    \in {"date", "dateTime", "time"}

\* the directives of the description that processTasks was given for task i
DirectivesOf(i) == DirectiveMatchesFrom(TaskContent(noteContent, newTaskUUIDs[i]), 1)

\* some directive of task i with this prefix evaluates to a date kind
DatedBy(i, prefix) ==
  \E k \in DOMAIN DirectivesOf(i) :
    DirectivesOf(i)[k].prefix = prefix /\ IsDateKind(DirectivesOf(i)[k])

\* C12: a directive of a task whose inner expression does not evaluate to a
\* date kind sets neither startAt nor hideUntil (they are set only where a
\* directive of that prefix evaluates to a date kind), and its text is still
\* in the description that the task is updated with.
C12_NonDateDirectiveIgnored ==
  \A i \in DOMAIN tasks :
    tasks[i].update.v = "update" =>
      /\ ~DatedBy(i, "start:") => tasks[i].update.startAt = Null
      /\ ~DatedBy(i, "hide:") => tasks[i].update.hideUntil = Null
      /\ \A k \in DOMAIN DirectivesOf(i) :
           ~IsDateKind(DirectivesOf(i)[k]) =>
             FindSeq(tasks[i].update.content, DirectivesOf(i)[k].fullMatch, 1) # 0

----------------------------------------------------------------------------
(* The evaluator on date phrases: one call of evaluateExpression on a      *)
(* phrase of the date grammar, at reference instants of every weekday      *)

WeekdayNames == {weekdays[i] : i \in 1..7}

WeekdayPhrases ==
  {<<w>> : w \in WeekdayNames}
  \cup {<<direction, w>> : direction \in {"next", "last"}, w \in WeekdayNames}

MonthNames == {months[i] : i \in 1..24}

MonthPhrases ==
  {<<m>> : m \in MonthNames}
  \cup {<<m, day>> : m \in MonthNames, day \in DOMAIN DayLiterals}
  \cup {<<edge, "of", m>> : edge \in {"end", "beginning"}, m \in MonthNames}

NamedDayPhrases == {<<"today">>, <<"tomorrow">>, <<"yesterday">>, <<"the", "weekend">>}

WeekOfPhrases == {<<w, "of", direction, "week">> : w \in WeekdayNames, direction \in {"last", "next"}}

Counts == {"2", "a", "three", "foo"}

UnitPhrases ==
  {<<direction, unit>> : direction \in {"next", "last"}, unit \in SingularUnits \cup PluralUnits}
  \cup {<<"in", count, unit>> : count \in Counts, unit \in SingularUnits \cup PluralUnits}
  \cup {<<count, unit, "from", "now">> : count \in Counts, unit \in PluralUnits}
  \cup {<<count, unit, "ago">> : count \in Counts \cup {"0"}, unit \in SingularUnits \cup PluralUnits}

RangePhrases ==
  {<<edge, "of", direction, unit>> :
     edge \in {"end", "beginning"}, direction \in {"next", "last", "this"}, unit \in RangeUnits}
  \cup {<<edge, "of", unit>> : edge \in {"end", "beginning"}, unit \in RangeUnits}
  \cup {<<"this", unit>> : unit \in RangeUnits}

TimePhrases == {<<"now">>, <<"3pm">>, <<"10:45">>, <<"7">>}

\* the phrases that the compound phrases are built on
BasePhrases ==
  {<<"today">>, <<"now">>, <<"3pm">>, <<"friday">>, <<"end", "of", "march">>,
   <<"february", "29th">>, <<"december">>, <<"next", "month">>, <<"2", "hours", "ago">>,
   <<"this", "month">>, <<"foo">>}

OffsetPhrases ==
  {<<count, unit, direction>> \o article \o base :
     count \in Counts, unit \in {"days", "week", "months", "hours", "fortnights"},
     direction \in {"before", "after"}, article \in {<<>>, <<"the">>}, base \in BasePhrases}

WeekdayOfPhrases ==
  {<<position, dayType, "of">> \o base :
     position \in {"first", "last"}, dayType \in {"weekday", "monday", "sunday"},
     base \in BasePhrases \cup {<<"foo", "days", "after", "today">>,
                                 <<"2", "hours", "after", "today">>}}

Ordinals == <<"first", "second", "third", "fourth", "fifth">>

\* <ordinal> <weekday> of <month>
OrdinalPhrases ==
  {<<Ordinals[n], w, "of", m>> :
     n \in 1..5, w \in WeekdayNames, m \in {"february", "april", "july", "september"}}

DateTimePhrases ==
  {base \o at \o <<time>> :
     base \in BasePhrases \cup {<<"2", "days", "after", "today">>},
     at \in {<<>>, <<"at">>}, time \in {"3pm", "10:45"}}

DatePhrases ==
  WeekdayPhrases \cup MonthPhrases \cup NamedDayPhrases \cup WeekOfPhrases \cup UnitPhrases
  \cup RangePhrases \cup TimePhrases \cup OffsetPhrases \cup WeekdayOfPhrases
  \cup DateTimePhrases \cup OrdinalPhrases

DateInputs ==
  {<<"{">> \o phrase \o <<"}">> : phrase \in DatePhrases}
  \cup {<<"{", FmtOk>> \o phrase \o <<"}">> : phrase \in DatePhrases}
  \cup {<<"{", FmtBad>> \o phrase \o <<"}">> : phrase \in BasePhrases}

\* the days from Sunday, April 21st 2024 to Saturday, April 27th 2024, then
\* December 31st 2024 and February 28th 2025
ReferenceDays ==
  {NewDate(2024, 3, day).d : day \in 21..27} \cup {NewDate(2024, 11, 31).d, NewDate(2025, 1, 28).d}

\* midnight, 10:00 and the last millisecond of the day
ReferenceTimes == {0, 10 * MsPerHour, MsPerDay - 1}

DateInstants == {InstantV(day, ms) : day \in ReferenceDays, ms \in ReferenceTimes}

InitDates ==
  /\ evalInput \in DateInputs
  /\ evalOutput = Pending
  /\ refNow \in DateInstants
  /\ PipelineIdle
  /\ polls = <<>>
  /\ storage = NoStorage

SpecDates == InitDates /\ [][NextEval]_vars

\* the phrase between the braces of the input
Phrase == SubSeq(evalInput, 2, Len(evalInput) - 1)

\* instant a is earlier than instant b
Before(a, b) == a.d < b.d \/ (a.d = b.d /\ a.ms < b.ms)

----------------------------------------------------------------------------
(* C13 *)

\* C13: for every weekday name and reference instant, next <weekday> is a
\* date strictly after the reference instant and last <weekday> a date
\* strictly before it, neither on the reference day; the bare weekday name is
\* the reference date when the reference day is that weekday.
C13_NextLastStrict ==
  evalOutput # Pending =>
    /\ (Len(Phrase) = 2 /\ Phrase[1] = "next" /\ IsWeekday(Phrase[2])) =>
         /\ evalOutput.type = "date" /\ evalOutput.result.valid
         /\ Before(refNow, evalOutput.result)
         /\ evalOutput.result.d # refNow.d
         /\ getDay(evalOutput.result) = getWeekdayIndex(Phrase[2])
    /\ (Len(Phrase) = 2 /\ Phrase[1] = "last" /\ IsWeekday(Phrase[2])) =>
         /\ evalOutput.type = "date" /\ evalOutput.result.valid
         /\ Before(evalOutput.result, refNow)
         /\ evalOutput.result.d # refNow.d
         /\ getDay(evalOutput.result) = getWeekdayIndex(Phrase[2])
    /\ (Len(Phrase) = 1 /\ IsWeekday(Phrase[1])
          /\ getDay(refNow) = getWeekdayIndex(Phrase[1])) =>
         evalOutput.result = clearTime(refNow)

\* next <weekday> asked on that weekday, at midnight
C13_Witness ==
  /\ evalOutput # Pending
  /\ Len(Phrase) = 2 /\ Phrase[1] = "next" /\ IsWeekday(Phrase[2])
  /\ getDay(refNow) = getWeekdayIndex(Phrase[2]) /\ refNow.ms = 0
  /\ evalOutput.result.d = refNow.d + 7

----------------------------------------------------------------------------
(* C14 *)

\* the Sunday that begins the week of the instant
WeekStart(date) == date.d - getDay(date)

\* C14: a bare weekday name is midnight of that weekday in the Sunday to
\* Saturday week that holds the reference date, whether the weekday lies
\* before, on or after the reference day.
C14_WeekdayOfCurrentWeek ==
  (evalOutput # Pending /\ Len(Phrase) = 1 /\ IsWeekday(Phrase[1])) =>
    /\ evalOutput.type = "date"
    /\ evalOutput.result = InstantV(WeekStart(refNow) + getWeekdayIndex(Phrase[1]), 0)

----------------------------------------------------------------------------
(* C15 *)

\* the phrase is <month> <day>
IsMonthDay(phrase) ==
  Len(phrase) = 2 /\ phrase[1] \in MonthNames /\ phrase[2] \in DOMAIN DayLiterals

\* the day number of the first day of the month after the given one
FollowingMonthStart(year, monthIndex) ==
  IF monthIndex = 11 THEN YearStart(year + 1) ELSE NewDate(year, monthIndex + 1, 1).d

\* by how many days the day of the phrase passes the end of its month in the
\* reference year
Excess(phrase) ==
  DayLiterals[phrase[2]] - DaysInMonth(getFullYear(refNow), getMonthIndex(phrase[1]))

\* C15: <month> <day> with a day past the end of that month in the reference
\* year is a date at midnight that counts the excess days on from the first
\* of the following month: for a day up to 31 it is the day of that number
\* of the following month, so February 29th of a year that is no leap year
\* is March 1st and April 31st is May 1st.
C15_DayOverflowRolls ==
  (evalOutput # Pending /\ IsMonthDay(Phrase) /\ Excess(Phrase) > 0) =>
    /\ evalOutput.type = "date"
    /\ evalOutput.result.valid /\ evalOutput.result.ms = 0
    /\ evalOutput.result.d
         = FollowingMonthStart(getFullYear(refNow), getMonthIndex(Phrase[1])) + Excess(Phrase) - 1
    /\ DayLiterals[Phrase[2]] <= 31 =>
         /\ getMonth(evalOutput.result) = (getMonthIndex(Phrase[1]) + 1) % 12
         /\ getDate(evalOutput.result) = Excess(Phrase)
         /\ getFullYear(evalOutput.result)
              = getFullYear(refNow) + (IF getMonthIndex(Phrase[1]) = 11 THEN 1 ELSE 0)

\* February 29th asked in 2025 is March 1st 2025
C15_Witness ==
  /\ evalOutput # Pending
  /\ Phrase = <<"february", "29th">> /\ getFullYear(refNow) = 2025
  /\ evalOutput.result = NewDate(2025, 2, 1)

----------------------------------------------------------------------------
(* C16 *)

\* the phrase is End of <month>
IsEndOfMonth(phrase) ==
  Len(phrase) = 3 /\ phrase[1] = "end" /\ phrase[2] = "of" /\ IsMonthName(phrase[3])

\* the phrase holds an offset <count> <unit> before|after <base>
HoldsOffset(phrase) == Contains(phrase, "before") \/ Contains(phrase, "after")

AtMidnight(date) == date.valid /\ date.ms = 0

----------------------------------------------------------------------------
(* C17 *)

\* the input is {"fmt":phrase} with the valid format string
IsFormatted == Len(evalInput) >= 4 /\ evalInput[2] = FmtOk

\* the evaluation of {phrase} for the phrase of a formatted input
PlainEvaluation ==
  evaluateExpression(<<"{">> \o SubSeq(evalInput, 3, Len(evalInput) - 1) \o <<"}">>, refNow)

\* C17: for a phrase that resolves to a date kind and a valid format string,
\* evaluating {"fmt":phrase} gives the text that rendering the value of
\* {phrase} through fmt gives, at the same reference instant.
C17_FormatCommutes ==
  (evalOutput # Pending /\ IsFormatted
     /\ PlainEvaluation.type \in {"date", "dateTime", "time"}) =>
    evalOutput = [type |-> "formattedDate",
                  result |-> format(PlainEvaluation.result, FmtOk)]

----------------------------------------------------------------------------
(* The evaluator on arithmetic: one call of evaluateExpression on a        *)
(* sequence of tokens of the expression language                           *)

\* the longest inner content (in tokens) of an arithmetic input
MaxMath == 3

MathVocabulary ==
  {"1", "2", "+", "-", "*", "/", "%", "**", "(", ")", "pi", "foo", ";", "today"}

\* one binary operation on two numeric literals
BinaryOperations ==
  {<<a, operator, b>> : a \in {"0", "5", "13"}, operator \in Operators, b \in {"2", "5"}}

\* a call of a constant with or without an argument, and of another name
CallExpressions ==
  {<<callee, "(">> \o argument \o <<")">> :
     callee \in {"pi", "e", "foo"}, argument \in {<<>>, <<"1">>, <<"foo">>}}

MathInputs ==
  {<<"{">> \o inner \o <<"}">> :
     inner \in TokenSeqs(MathVocabulary, MaxMath) \cup BinaryOperations \cup CallExpressions}

InitMath ==
  /\ evalInput \in MathInputs
  /\ evalOutput = Pending
  /\ refNow = InstantV(6, 10 * MsPerHour)
  /\ PipelineIdle
  /\ polls = <<>>
  /\ storage = NoStorage

SpecMath == InitMath /\ [][NextEval]_vars

----------------------------------------------------------------------------
(* C18 *)

\* the inner content after its format specifier, if it has one
Expression ==
  IF Len(Phrase) >= 2 /\ Phrase[1] \in FormatSpecifiers THEN Tail(Phrase) ELSE Phrase

\* the tokens are one date phrase: one rule of the date grammar takes them all
OneDatePhrase(ts) == parseDateExpression(ts, refNow).success

\* the tokens are one arithmetic expression, with or without the semicolon
\* that ends it: the expression rule takes them all
OneArithmeticExpression(ts) ==
  LET r == parseExpression("additive", ts, 1, Null) IN
  r.ok /\ (r.next = Len(ts) + 1 \/ (r.next = Len(ts) /\ Last(ts) = ";"))

\* C18: a result other than Unhandled is returned only when the whole inner
\* content is one date phrase or one arithmetic expression; inner content
\* that holds more than one independent phrase yields Unhandled.
C18_OnePhraseOnly ==
  evalOutput.type \notin {"pending", "unhandled"} =>
    OneDatePhrase(Expression) \/ OneArithmeticExpression(Expression)

----------------------------------------------------------------------------
(* C19: what the math parser accepts *)

\* an identifier that is not one of the two constants
IsOtherIdentifier(t) == IsIdentifier(t) /\ t \notin {"pi", "e"}

\* C19: the math parser reports success only for arithmetic on literals and
\* the constants pi and e: an input that holds any other identifier is a
\* failure, never a Math result.
C19_OnlyArithmeticSucceeds ==
  evalOutput.type = "math" =>
    \A i \in 1..Len(Expression) : ~IsOtherIdentifier(Expression[i])

----------------------------------------------------------------------------
(* C20: the binary operators *)

\* the value of a operator b in JavaScript arithmetic, on integers a >= 0, b > 0
Arithmetic(a, operator, b) ==
  CASE operator = "+" -> NumV(a + b, 1)
    [] operator = "-" -> NumV(a - b, 1)
    [] operator = "*" -> NumV(a * b, 1)
    [] operator = "/" -> NumV(a, b)
    [] operator = "%" -> NumV(a % b, 1)
    [] operator = "**" -> NumV(a ^ b, 1)

\* C20: a binary operation of + - * / % ** on two numeric literals evaluates
\* to a Math result whose value is the arithmetic result of the operation.
C20_BinaryOperators ==
  (Expression \in BinaryOperations /\ evalOutput # Pending) =>
    evalOutput = [type |-> "math",
                  result |-> Arithmetic(DecimalLiterals[Expression[1]], Expression[2],
                                        DecimalLiterals[Expression[3]])]

----------------------------------------------------------------------------
(* C21: count words that the table does not hold *)

\* the phrase is one of the four forms that take a count
IsCountPhrase(phrase) ==
  \/ Len(phrase) = 3 /\ phrase[1] = "in"
  \/ Len(phrase) = 4 /\ phrase[3] = "from" /\ phrase[4] = "now"
  \/ Len(phrase) = 3 /\ phrase[3] = "ago"
  \/ Len(phrase) >= 4 /\ phrase[3] \in {"before", "after"}

CountOf(phrase) == IF phrase[1] = "in" THEN phrase[2] ELSE phrase[1]

\* neither digits nor a word of the table
IsUnresolvable(count) == IsNaN(parseInt(count)) /\ IsNaN(wordToNumber(count))

\* C21: a phrase that takes a count and whose count word the word-to-number
\* table cannot resolve evaluates to Unhandled, never to a date-kind result.
C21_UnresolvableCountUnhandled ==
  (IsCountPhrase(Expression) /\ IsUnresolvable(CountOf(Expression)) /\ evalOutput # Pending)
    => evalOutput.type = "unhandled"

----------------------------------------------------------------------------
(* C22: the n-th weekday of a month *)

IsOrdinalPhrase(phrase) == phrase \in OrdinalPhrases

OrdinalOf(phrase) == CHOOSE n \in 1..5 : Ordinals[n] = phrase[1]

\* the day of the month of the n-th date that falls on the weekday
NthDay(year, monthIndex, weekday, n) ==
  1 + ((weekday + 7 - getDay(NewDate(year, monthIndex, 1))) % 7) + 7 * (n - 1)

\* the result the phrase has in the year of the reference date
NthWeekdayOf(phrase, year) ==
  LET monthIndex == getMonthIndex(phrase[4])
      day == NthDay(year, monthIndex, getWeekdayIndex(phrase[2]), OrdinalOf(phrase))
  IN  IF day <= DaysInMonth(year, monthIndex)
      THEN [type |-> "date", result |-> NewDate(year, monthIndex, day)]
      ELSE Unhandled

\* C22: <ordinal> <weekday> of <month>, with an ordinal from first to fifth,
\* is the n-th date of the month that falls on the weekday, the 1st counted
\* when it is that weekday, and is Unhandled when the month has no n-th one.
C22_NthWeekdayOfMonth ==
  (IsOrdinalPhrase(Phrase) /\ evalOutput # Pending) =>
    evalOutput = NthWeekdayOf(Phrase, getFullYear(refNow))

----------------------------------------------------------------------------
(* Link resolution on templates of links: the flags of a link *)

MaxLinks == 2

LinkParts ==
  {<<LO, "Foo", LC>>, <<LO, "?", "Foo", LC>>, <<LO, "_", "Foo", LC>>,
   <<LO, "_", "t", "/", "Bar", BAR, "Al", LC>>, <<"{", "today", "}">>, <<"text">>}

LinkTemplates ==
  {links \o tail :
     links \in Concats(LinkParts, MaxLinks) \ {<<>>},
     tail \in {<<>>, <<NL, TaskMarker, "do", "{", "start:", "today", "}", "<!--{uuid:a}-->">>}}

InitLinks ==
  /\ evalInput = <<>> /\ evalOutput = Pending
  /\ refNow = InstantV(6, 10 * MsPerHour)
  /\ \E t \in LinkTemplates, c \in TaskConfigs :
       /\ template = t /\ insertMode = c.insertMode /\ host = c.host
       /\ noteContent = c.noteContent /\ notes \in NoteStores
  /\ created = <<>>
  /\ pc = "start"
  /\ templateMarkdown = template
  /\ footnoteData = [counter |-> 1, content |-> <<>>]
  /\ newTaskUUIDs = <<>> /\ stepLog = <<>> /\ returned = "pending"
  /\ tasks = <<>> /\ clock = 0 /\ tasksPromise = "none" /\ errorLog = <<>>
  /\ polls = <<>>
  /\ storage = NoStorage

SpecLinks == InitLinks /\ [][Next]_vars

----------------------------------------------------------------------------
(* C23: the silent flag *)

\* the notes of the store before the run created any
NotesBefore == {n \in notes : \A c \in 1..Len(created) : created[c] # n}

\* a link whose content begins with the silent flag
IsSilent(match) ==
  ~match.isOptional /\ Len(match.linkContent) >= 2 /\ Head(match.linkContent) = "_"

\* the (tag, name) of a silent link: its content without the flag
SilentTarget(match) ==
  extractTagAndNoteName(evaluateLinkContent(Tail(match.linkContent), refNow).text)

\* the silent links of the matches whose note the store did not hold
SilentMissing(matches) ==
  SelectSeq(matches,
            LAMBDA m : /\ IsSilent(m)
                       /\ NotesFind(NotesBefore, Join(SilentTarget(m).noteName),
                                    SilentTarget(m).tag) = Null)

RECURSIVE WithoutLinks(_, _)
WithoutLinks(markdown, matches) ==
  IF matches = <<>> THEN markdown
  ELSE WithoutLinks(ReplaceFirst(markdown, Head(matches).fullMatch, <<>>), Tail(matches))

\* link resolution on the text from which the silent links to missing notes
\* have been taken out
ResolvedWithout(markdown) ==
  processLinks(WithoutLinks(markdown, SilentMissing(LinkMatchesFrom(markdown, 1, Closers))),
               NotesBefore, <<>>, Closers, refNow)

\* C23: a link with the silent flag whose note does not exist produces no
\* output and creates no note: link resolution leaves the text and the
\* creations it would leave had the link not been written.
C23_SilentLinkSuppressed ==
  \A k \in 1..Len(stepLog) : LinkStep(k) =>
    /\ stepLog[k].output = ResolvedWithout(stepLog[k].input).markdown
    /\ created = ResolvedWithout(stepLog[k].input).created

----------------------------------------------------------------------------
(* Smart insertion on templates of list lines: the indentation adjuster *)

MaxLines == 3

TemplateLines ==
  {<<BulletMarker, "b">>, <<NumberMarker, "n">>, <<TaskMarker, "t">>,
   <<Indent, BulletMarker, "s">>, <<BulletMarker, "c", Continuation>>,
   <<"cont", Continuation>>, <<"text">>, <<>>}

\* the line of the note that the template is inserted into
ContextLines ==
  {<<BulletMarker, "item">>, <<Indent, NumberMarker, "item">>, <<TaskMarker, "item">>,
   <<"note">>}

\* templates of up to MaxLines lines, and those of a task with an identifier
\* and one more line
IndentTemplates ==
  LinesOf(TemplateLines, MaxLines)
  \cup {<<TaskMarker, "t", "<!--{uuid:a}-->", NL>> \o t : t \in TemplateLines}

InitIndent ==
  /\ evalInput = <<>> /\ evalOutput = Pending
  /\ refNow = InstantV(6, 10 * MsPerHour)
  /\ template \in IndentTemplates
  /\ insertMode = "smart" /\ host = "ok"
  /\ noteContent \in ContextLines
  /\ notes = {}
  /\ created = <<>>
  /\ pc = "start"
  /\ templateMarkdown = template
  /\ footnoteData = [counter |-> 1, content |-> <<>>]
  /\ newTaskUUIDs = <<>> /\ stepLog = <<>> /\ returned = "pending"
  /\ tasks = <<>> /\ clock = 0 /\ tasksPromise = "none" /\ errorLog = <<>>
  /\ polls = <<>>
  /\ storage = NoStorage

SpecIndent == InitIndent /\ [][Next]_vars

\* the text the indentation adjuster was called on, its lines and the lines
\* it returned, in the state after the step
AdjusterInput == Last(stepLog).input

InputLines == SplitLines(AdjusterInput)

OutputLines == SplitLines(templateMarkdown)

\* the kind of list marker a line begins with, after its leading whitespace
MarkerKind(line) ==
  LET first == Tok(TrimStart(line), 1) IN
  CASE first = BulletMarker -> "bullet"
    [] first = NumberMarker -> "number"
    [] first = TaskMarker -> "task"
    [] OTHER -> "none"

\* the line without its leading whitespace and its marker
WithoutMarker(line) == Trim(Tail(TrimStart(line)))

----------------------------------------------------------------------------
(* C24: the first line of the template *)

\* C24: a first line that is a list line is merged into the insertion line,
\* its marker and indentation stripped, exactly when its marker kind equals
\* the kind of the insertion line; a list line of another kind goes on a new
\* line with the context's indentation and keeps its marker.
C24_FirstLineMergedOnSameKind ==
  (pc = "adjusted" /\ MarkerKind(Head(InputLines)) # "none") =>
    IF MarkerKind(Head(InputLines)) = MarkerKind(CurrentLine)
    THEN Head(OutputLines) = WithoutMarker(Head(InputLines))
    ELSE /\ Head(OutputLines) = <<>>
         /\ OutputLines[2] = getIndentation(CurrentLine) \o Head(InputLines)

----------------------------------------------------------------------------
(* C25: where re-indentation stops *)

\* the line is a list line, whatever its marker
IsListLine(line) == MarkerKind(line) # "none"

\* the first index at which the lines satisfy Stops, 0 when none does
FirstIndex(lines, Stops(_, _)) ==
  IF \E i \in 1..Len(lines) : Stops(lines, i)
  THEN CHOOSE i \in 1..Len(lines) : Stops(lines, i) /\ \A j \in 1..(i - 1) : ~Stops(lines, j)
  ELSE 0

\* the line is neither a list line, blank nor a line that ends in the
\* continuation marker
IsPlainLine(lines, i) ==
  ~IsListLine(lines[i]) /\ lines[i] # <<>> /\ ~EndsWithContinuation(lines[i])

\* the line is neither a list line nor blank and does not follow a line that
\* ends in the continuation marker
IsHaltingLine(lines, i) ==
  /\ ~IsListLine(lines[i]) /\ lines[i] # <<>>
  /\ ~(i > 1 /\ EndsWithContinuation(lines[i - 1]))

\* the lines from index s on are the last lines of the output, unchanged,
\* and the output has no line more than the input but the one that the
\* first line may be moved to
VerbatimFrom(s) ==
  LET n == Len(InputLines)
      m == Len(OutputLines)
  IN  /\ m \in {n, n + 1}
      /\ SubSeq(OutputLines, m - (n - s), m) = SubSeq(InputLines, s, n)

\* C25 as stated: the first line that is neither indentable, blank nor a
\* continuation (a line ending in the marker) stops re-indentation; it and
\* every line after it are in the output once, unchanged and in order.
C25_PlainLineHalts ==
  (pc = "adjusted" /\ FirstIndex(InputLines, IsPlainLine) # 0) =>
    VerbatimFrom(FirstIndex(InputLines, IsPlainLine))

\* C25, amended: the first line that is neither indentable nor blank and does
\* not follow a line ending in the continuation marker stops re-indentation;
\* it and every line after it are in the output once, unchanged and in order.
C25_HaltingLineHalts ==
  (pc = "adjusted" /\ FirstIndex(InputLines, IsHaltingLine) # 0) =>
    VerbatimFrom(FirstIndex(InputLines, IsHaltingLine))

\* a list line was re-indented, then a line halted, and the list line after
\* it kept its place at the margin
C25_Witness ==
  /\ pc = "adjusted"
  /\ getIndentation(CurrentLine) # <<>>
  /\ Len(InputLines) = 3
  /\ FirstIndex(InputLines, IsHaltingLine) = 2
  /\ IsListLine(InputLines[1]) /\ IsListLine(InputLines[3])
  /\ Last(OutputLines) = InputLines[3]

----------------------------------------------------------------------------
(* C26: the lines that are passed through *)

\* the output has this many lines before the line that answers input line 1
Offset == Len(OutputLines) - Len(InputLines)

\* input line i is in the output as it was written
CopiedAsIs(i) == OutputLines[i + Offset] = InputLines[i]

\* input line i is in the output with the context's indentation before it
Reindented(i) == OutputLines[i + Offset] = getIndentation(CurrentLine) \o InputLines[i]

\* re-indentation began, on a first line that is a list line, and no line up
\* to line i satisfies Stops
ActiveAt(i, Stops(_, _)) ==
  /\ IsListLine(InputLines[1])
  /\ FirstIndex(InputLines, Stops) \notin 1..i

\* C26 as stated: after the first line, every line that ends in the
\* continuation marker and every blank line is copied without the context's
\* indentation, and the list line after it is still re-indented.
C26_MarkedLinesPassed ==
  pc = "adjusted" =>
    \A i \in 2..Len(InputLines) :
      (InputLines[i] = <<>> \/ EndsWithContinuation(InputLines[i])) =>
        /\ CopiedAsIs(i)
        /\ (/\ ActiveAt(i, IsPlainLine) /\ i < Len(InputLines)
            /\ IsListLine(InputLines[i + 1]) /\ ~EndsWithContinuation(InputLines[i + 1]))
           => Reindented(i + 1)

\* C26, amended: after the first line, every line that follows a line ending
\* in the continuation marker and every blank line is copied without the
\* context's indentation, and neither stops re-indentation: the list line
\* after it is still re-indented, unless it follows a marker itself.
C26_FollowingLinesPassed ==
  pc = "adjusted" =>
    \A i \in 2..Len(InputLines) :
      (InputLines[i] = <<>> \/ EndsWithContinuation(InputLines[i - 1])) =>
        /\ CopiedAsIs(i)
        /\ (/\ ActiveAt(i, IsHaltingLine) /\ i < Len(InputLines)
            /\ IsListLine(InputLines[i + 1]) /\ ~EndsWithContinuation(InputLines[i]))
           => Reindented(i + 1)

\* a list line after a line ending in the marker was copied as it is, and
\* the list line after it was re-indented
C26_Witness ==
  /\ pc = "adjusted"
  /\ getIndentation(CurrentLine) # <<>>
  /\ Len(InputLines) = 3
  /\ EndsWithContinuation(InputLines[1])
  /\ IsListLine(InputLines[2]) /\ ~EndsWithContinuation(InputLines[2])
  /\ IsListLine(InputLines[3])
  /\ CopiedAsIs(2) /\ Reindented(3)

----------------------------------------------------------------------------
(* ExpiryStorage (expiryStorage.js): a key-value store over
   window.localStorage with an in-memory fallback *)

MaxClock == 2

MaxCalls == 3

Keys == {"k1", "k2"}

\* an expiryDate argument: a Date of a time, an Invalid Date, something else
DateAt(time) == [isDate |-> TRUE, valid |-> TRUE, time |-> time]

InvalidDateObject == [isDate |-> TRUE, valid |-> FALSE, time |-> 0]

NotADate == [isDate |-> FALSE, valid |-> FALSE, time |-> 0]

ExpiryDates == {DateAt(t) : t \in 1..MaxClock} \cup {InvalidDateObject, NotADate}

StoredValues == {StrV("a"), NaN}

\* JSON.parse(JSON.stringify(value)): NaN is written as null
JsonOf(value) == IF value = NaN THEN Null ELSE value

\* a string of localStorage that JSON.parse rejects
Garbage == [v |-> "garbage"]

\* JSON.stringify({ value, expiry: expiryDate.toISOString() }), read back:
\* the ISO string keeps the milliseconds, new Date(item.expiry) is the same instant
SerializedItem(value, expiryDate) ==
  [v |-> "item", value |-> JsonOf(value), expiry |-> expiryDate.time]

NoItems == [key \in Keys |-> Null]

\* a call of a method, what it was given and how it went
\* outcome: the store the call used, or "threw"; failed: the calls of
\* localStorage that threw in it
Call(op, key, value, expiry, outcome, failed, result, at) ==
  [op |-> op, key |-> key, value |-> value, expiry |-> expiry,
   outcome |-> outcome, failed |-> failed, result |-> result, at |-> at]

\* the calls made so far, in order
Recorded(call) == Append(storage.calls, call)

\* new ExpiryStorage(): checkLocalStorage probes localStorage once
InitStorage ==
  /\ evalInput = <<>> /\ evalOutput = Pending /\ refNow \in {InstantV(6, 0)}
  /\ PipelineIdle
  /\ storage \in
       {[localStorageAvailable |-> available, localStorage |-> items,
         memoryStorage |-> NoItems, now |-> 0, calls |-> <<>>] :
          available \in BOOLEAN,
          items \in {NoItems, [NoItems EXCEPT !["k1"] = Garbage]}}
  /\ ~storage.localStorageAvailable => storage.localStorage = NoItems

\* removeItem(key) applied to a storage s; throws: localStorage.removeItem throws
Removed(s, key, throws) ==
  IF s.localStorageAvailable
  THEN IF throws
       THEN [s EXCEPT !.memoryStorage[key] = Null]
       ELSE [s EXCEPT !.localStorage[key] = Null]
  ELSE [s EXCEPT !.memoryStorage[key] = Null]

\* setItem(key, value, expiryDate); throws: localStorage.setItem throws
setItem(key, value, expiryDate, throws) ==
  LET at == storage.now
      serializedItem == SerializedItem(value, expiryDate)
  IN  IF ~expiryDate.isDate \/ ~expiryDate.valid
      THEN storage' = [storage EXCEPT !.calls =
             Recorded(Call("setItem", key, value, 0, "threw", {}, Null, at))]
      ELSE IF storage.localStorageAvailable
      THEN IF throws
           THEN storage' = [storage EXCEPT
                  !.memoryStorage[key] = serializedItem,
                  !.calls = Recorded(Call("setItem", key, value, expiryDate.time,
                                        "memory", {"setItem"}, Null, at))]
           ELSE storage' = [storage EXCEPT
                  !.localStorage[key] = serializedItem,
                  !.calls = Recorded(Call("setItem", key, value, expiryDate.time,
                                        "localStorage", {}, Null, at))]
      ELSE /\ ~throws
           /\ storage' = [storage EXCEPT
                  !.memoryStorage[key] = serializedItem,
                  !.calls = Recorded(Call("setItem", key, value, expiryDate.time,
                                        "memory", {}, Null, at))]

\* getItem(key); getThrows: localStorage.getItem throws, removeThrows:
\* localStorage.removeItem throws
getItem(key, getThrows, removeThrows) ==
  LET now == storage.now
      fromMemory == ~storage.localStorageAvailable \/ getThrows
      serializedItem == IF fromMemory THEN storage.memoryStorage[key]
                        ELSE storage.localStorage[key]
      outcome == IF fromMemory THEN "memory" ELSE "localStorage"
      removing == serializedItem # Null
                    /\ (serializedItem = Garbage \/ now >= serializedItem.expiry)
      result == IF serializedItem = Null \/ removing THEN Null
                ELSE serializedItem.value
      after == IF removing THEN Removed(storage, key, removeThrows) ELSE storage
      failed == (IF getThrows THEN {"getItem"} ELSE {})
                  \cup (IF removeThrows THEN {"removeItem"} ELSE {})
  IN  /\ ~storage.localStorageAvailable => ~getThrows /\ ~removeThrows
      /\ ~removing => ~removeThrows
      /\ storage' = [after EXCEPT !.calls =
                       Recorded(Call("getItem", key, Null, 0, outcome, failed,
                                     result, now))]

\* removeItem(key)
removeItem(key, throws) ==
  /\ ~storage.localStorageAvailable => ~throws
  /\ storage' = [Removed(storage, key, throws) EXCEPT !.calls =
       Recorded(Call("removeItem", key, Null, 0,
                   IF throws \/ ~storage.localStorageAvailable
                   THEN "memory" ELSE "localStorage",
                   IF throws THEN {"removeItem"} ELSE {}, Null, storage.now))]

\* clear()
clear(throws) ==
  /\ ~storage.localStorageAvailable => ~throws
  /\ storage' = [storage EXCEPT
       !.localStorage = IF storage.localStorageAvailable /\ ~throws
                        THEN NoItems ELSE @,
       !.memoryStorage = IF storage.localStorageAvailable /\ ~throws
                         THEN @ ELSE NoItems,
       !.calls = Recorded(Call("clear", "k1", Null, 0,
                   IF throws \/ ~storage.localStorageAvailable
                   THEN "memory" ELSE "localStorage",
                   IF throws THEN {"clear"} ELSE {}, Null, storage.now))]

\* time passes between two calls
Elapse ==
  /\ storage.now < MaxClock
  /\ storage' = [storage EXCEPT !.now = @ + 1]

\* the calls of a run are bounded
CallsLeft == Len(storage.calls) < MaxCalls

NextStorage ==
  \/ \E key \in Keys, value \in StoredValues, expiryDate \in ExpiryDates,
        throws \in BOOLEAN :
       /\ CallsLeft /\ setItem(key, value, expiryDate, throws)
       /\ UNCHANGED <<evalVars, pipeVars, taskVars, polls>>
  \/ \E key \in Keys, getThrows \in BOOLEAN, removeThrows \in BOOLEAN :
       /\ CallsLeft /\ getItem(key, getThrows, removeThrows)
       /\ UNCHANGED <<evalVars, pipeVars, taskVars, polls>>
  \/ \E key \in Keys, throws \in BOOLEAN :
       /\ CallsLeft /\ removeItem(key, throws)
       /\ UNCHANGED <<evalVars, pipeVars, taskVars, polls>>
  \/ \E throws \in BOOLEAN :
       /\ CallsLeft /\ clear(throws)
       /\ UNCHANGED <<evalVars, pipeVars, taskVars, polls>>
  \/ Elapse /\ UNCHANGED <<evalVars, pipeVars, taskVars, polls>>

SpecStorage == InitStorage /\ [][NextStorage]_vars

\* the last two calls: a setItem that did not throw, then a getItem of the
\* same key in which no call of localStorage threw
LastCall == Last(storage.calls)

CallBefore == storage.calls[Len(storage.calls) - 1]

StoredThenRead ==
  /\ Len(storage.calls) >= 2
  /\ LastCall.op = "getItem" /\ LastCall.failed = {}
  /\ CallBefore.op = "setItem" /\ CallBefore.outcome # "threw"
  /\ CallBefore.key = LastCall.key

\* C27: getItem returns the stored value only while the current time is
\* strictly before the expiry instant of the item; at or after the expiry
\* instant it returns null and the item is gone from storage.
C27_ExpiryHonoured ==
  StoredThenRead =>
    /\ LastCall.result # Null => LastCall.at < CallBefore.expiry
    /\ LastCall.at >= CallBefore.expiry =>
         /\ LastCall.result = Null
         /\ storage.localStorage[LastCall.key] = Null
         /\ storage.memoryStorage[LastCall.key] = Null

\* C30: a value stored by setItem with an expiry in the future is returned
\* by the next getItem of the same key, also when localStorage.setItem threw
\* and the item went to memoryStorage.
C30_StoredValueReturned ==
  (StoredThenRead /\ LastCall.at < CallBefore.expiry
     /\ JsonOf(CallBefore.value) = CallBefore.value) =>
    LastCall.result = CallBefore.value

----------------------------------------------------------------------------
(* C28 *)

\* C28: an expression is classified as inside a link only when it lies
\* between the opening and the closing delimiter of one and the same link; an
\* expression in plain text between two links is not inside a link.
C28_InsideLinkIsNested ==
  Substituted =>
    \A k \in DOMAIN ExpressionsFrom(template, 1) :
      LET m == ExpressionsFrom(template, 1)[k] IN
      isInsideLink(m.at, Len(m.text), template) => NestedInLink(m.at, template)

----------------------------------------------------------------------------
(* C29 *)

\* the run handed the processed template over: it wrote the note (null) or
\* it returned the text for the host to insert
HandedOver == pc = "done" /\ returned \in {"null", "text"}

\* C29: whenever a run delivers the processed template, by writing the note
\* or by returning the text for the host to insert, processTasks has been
\* started with exactly the identifiers that replaceTaskUUIDs handed out in
\* that run: every one of them has its polling closure.
C29_TasksStartedOnDelivery ==
  HandedOver =>
    /\ Len(tasks) = Len(newTaskUUIDs)
    /\ newTaskUUIDs # <<>> => tasksPromise # "none"

====
